---------------------------- MODULE Spec2Model ----------------------------
(***************************************************************************)
(* SADL front end (lexer, section-aware parser with include resolution)    *)
(* and the layered graph layout of the visualizer.                         *)
(*                                                                         *)
(* The repository holds two builds of the lexer and the parser:            *)
(*   "src"  : src/src/lexer.ts, src/src/parser.ts, src/src/index.ts        *)
(*   "dist" : the compiled lexer and parser (src/unnamed/part_003,         *)
(*            src/unnamed/part_002), declared by src/dist/*.d.ts           *)
(* They differ (section keyword '#NATs', tokens '*' and '@', connector     *)
(* role).  The variable `build` says which one is running.                 *)
(***************************************************************************)
EXTENDS Integers, Sequences, FiniteSets, TLC

VARIABLES
    build,          \* which build of lexer+parser runs: "src" or "dist"
    files,          \* the host's file resolver: path -> text (a function)
    options,        \* the options handed to parse: [fileResolver, filePath]
    fileResolver,   \* Parser.fileResolver is set (TRUE) or undefined (FALSE)
    status,         \* "idle", "parsing", "done", "error"
    tokens,         \* Parser.tokens
    pos,            \* Parser.pos (0-based, as in the source)
    currentSection, \* Parser.currentSection
    currentPath,    \* Parser.currentPath
    includedPaths,  \* Parser.includedPaths
    ast,            \* the local `ast` of the running parseContent
    callStack,      \* the suspended processInclude frames (their locals)
    resolverCalls,  \* the sequence of paths handed to the resolver
    lastStep,       \* what the last step of the top-level loop did
    items,          \* the source items whose concatenation is the input
    text,           \* the input handed to parse / tokenize
    result,         \* what parse / tokenize returned or raised
    layout,         \* the state of the visualizer's layout
    ghost           \* history of the run (not program state)

vars == << build, files, options, fileResolver, status, tokens, pos, currentSection,
           currentPath, includedPaths, ast, callStack, resolverCalls,
           lastStep, items, text, result, layout, ghost >>

Null == "null"

Builds == {"src", "dist"}

(***************************************************************************)
(* Characters.  A text is a TLA+ string; one character is a string of      *)
(* length one.                                                             *)
(***************************************************************************)
LowerLetters == {"a","b","c","d","e","f","g","h","i","j","k","l","m",
                 "n","o","p","q","r","s","t","u","v","w","x","y","z"}
UpperLetters == {"A","B","C","D","E","F","G","H","I","J","K","L","M",
                 "N","O","P","Q","R","S","T","U","V","W","X","Y","Z"}
Digits == {"0","1","2","3","4","5","6","7","8","9"}

LowerOf == [c \in UpperLetters |->
    CASE c = "A" -> "a" [] c = "B" -> "b" [] c = "C" -> "c" [] c = "D" -> "d"
      [] c = "E" -> "e" [] c = "F" -> "f" [] c = "G" -> "g" [] c = "H" -> "h"
      [] c = "I" -> "i" [] c = "J" -> "j" [] c = "K" -> "k" [] c = "L" -> "l"
      [] c = "M" -> "m" [] c = "N" -> "n" [] c = "O" -> "o" [] c = "P" -> "p"
      [] c = "Q" -> "q" [] c = "R" -> "r" [] c = "S" -> "s" [] c = "T" -> "t"
      [] c = "U" -> "u" [] c = "V" -> "v" [] c = "W" -> "w" [] c = "X" -> "x"
      [] c = "Y" -> "y" [] c = "Z" -> "z"]

Range(s) == {s[i] : i \in DOMAIN s}

\* K applied to the value of v, v being evaluated once
Bind(v, K(_)) == CHOOSE y \in {K(x) : x \in {v}} : TRUE

\* String.prototype.toLowerCase on the characters an identifier can hold.
RECURSIVE toLowerCase(_)
toLowerCase(s) ==
    IF s = "" THEN ""
    ELSE Bind(SubSeq(s, 1, 1), LAMBDA c :
         Bind(SubSeq(s, 2, Len(s)), LAMBDA rest :
              (IF c \in UpperLetters THEN LowerOf[c] ELSE c) \o toLowerCase(rest)))

\* /[a-zA-Z_]/ and /[a-zA-Z0-9_]/ and /[0-9]/
IsIdentStart(c) == c \in LowerLetters \cup UpperLetters \cup {"_"}
IsIdentChar(c)  == c \in LowerLetters \cup UpperLetters \cup Digits \cup {"_"}
IsDigit(c)      == c \in Digits

(***************************************************************************)
(* Lexer.  A lexer state is [pos, line, column]; pos is 0-based.           *)
(***************************************************************************)
KEYWORDS == [include |-> "INCLUDE", udp |-> "UDP"]

SECTION_KEYWORDS_src ==
    [nodeclass |-> "SECTION_NODECLASS", linkclass |-> "SECTION_LINKCLASS",
     instances |-> "SECTION_INSTANCES", connections |-> "SECTION_CONNECTIONS"]

SECTION_KEYWORDS_dist ==
    [nodeclass |-> "SECTION_NODECLASS", linkclass |-> "SECTION_LINKCLASS",
     instances |-> "SECTION_INSTANCES", connections |-> "SECTION_CONNECTIONS",
     nats |-> "SECTION_NATS"]

SECTION_KEYWORDS(b) ==
    IF b = "dist" THEN SECTION_KEYWORDS_dist ELSE SECTION_KEYWORDS_src

\* table[key] on a plain JavaScript object literal: an own key gives its
\* value; "constructor" and "__proto__" are inherited from Object.prototype
\* and give a truthy value that is no token type; any other key gives
\* undefined (Null here).
InheritedKeys == {"constructor", "__proto__"}
Lookup(table, key) ==
    IF key \in DOMAIN table THEN table[key]
    ELSE IF key \in InheritedKeys THEN "OBJECT_PROTOTYPE_MEMBER"
    ELSE Null

LexStart == [pos |-> 0, line |-> 1, column |-> 1]

\* peek(offset): this.input[this.pos + offset] || ''
Lexer_peek(input, st, offset) ==
    IF st.pos + offset < Len(input)
    THEN SubSeq(input, st.pos + offset + 1, st.pos + offset + 1)
    ELSE ""

\* an advance that counts every character as one more column
Lexer_advance_oneLine(input, st) ==
    [pos |-> st.pos + 1, line |-> st.line, column |-> st.column + 1]

\* advance(): the state after consuming one character
Lexer_advance(input, st) ==
    IF Lexer_peek(input, st, 0) = "\n"
    THEN [pos |-> st.pos + 1, line |-> st.line + 1, column |-> 1]
    ELSE [pos |-> st.pos + 1, line |-> st.line, column |-> st.column + 1]

RECURSIVE skipWhitespace(_, _)
skipWhitespace(input, st) ==
    IF st.pos < Len(input) /\ Lexer_peek(input, st, 0) \in {" ", "\t", "\n", "\r"}
    THEN Bind(Lexer_advance(input, st), LAMBDA next : skipWhitespace(input, next))
    ELSE st

RECURSIVE skipComment(_, _)
skipComment(input, st) ==
    IF st.pos < Len(input) /\ Lexer_peek(input, st, 0) # "\n"
    THEN Bind(Lexer_advance(input, st), LAMBDA next : skipComment(input, next))
    ELSE st

\* readIdentifier(): the state after the longest run of identifier characters
RECURSIVE readIdentifier(_, _)
readIdentifier(input, st) ==
    IF st.pos < Len(input) /\ IsIdentChar(Lexer_peek(input, st, 0))
    THEN Bind(Lexer_advance(input, st), LAMBDA next : readIdentifier(input, next))
    ELSE st

RECURSIVE readNumber(_, _)
readNumber(input, st) ==
    IF st.pos < Len(input) /\ IsDigit(Lexer_peek(input, st, 0))
    THEN Bind(Lexer_advance(input, st), LAMBDA next : readNumber(input, next))
    ELSE st

\* the body of a string literal: up to the next '"' or the end of the input
RECURSIVE readString(_, _)
readString(input, st) ==
    IF st.pos < Len(input) /\ Lexer_peek(input, st, 0) # "\""
    THEN Bind(Lexer_advance(input, st), LAMBDA next : readString(input, next))
    ELSE st

\* the characters between two lexer states
Taken(input, from, to) == SubSeq(input, from.pos + 1, to.pos)

Token(type, value, st) ==
    [type |-> type, value |-> value, line |-> st.line, column |-> st.column]

LexError(kind, char, st) ==
    [ok |-> FALSE, kind |-> kind, char |-> char,
     line |-> st.line, column |-> st.column]

\* One iteration of tokenize's loop at a non-blank position `st`:
\* [ok, st, emit] with emit the sequence of tokens pushed (none or one),
\* or a lexical error.
ScanToken(b, input, st) ==
    LET char == Lexer_peek(input, st, 0)
        a1   == Lexer_advance(input, st)
        a2   == Lexer_advance(input, a1)
        one(type) == [ok |-> TRUE, st |-> a1, emit |-> << Token(type, char, st) >>]
    IN
    IF char = "#" THEN
        Bind(readIdentifier(input, a1), LAMBDA e :
        Bind(Taken(input, a1, e), LAMBDA identifier :
        Bind(Lookup(SECTION_KEYWORDS(b), toLowerCase(identifier)), LAMBDA sectionType :
             IF sectionType # Null
             THEN [ok |-> TRUE, st |-> e,
                   emit |-> << Token(sectionType, identifier, st) >>]
             ELSE [ok |-> TRUE, st |-> skipComment(input, e), emit |-> << >>])))
    ELSE IF IsIdentStart(char) THEN
        Bind(readIdentifier(input, st), LAMBDA e :
        Bind(Taken(input, st, e), LAMBDA identifier :
        Bind(Lookup(KEYWORDS, toLowerCase(identifier)), LAMBDA keyword :
             [ok |-> TRUE, st |-> e,
              emit |-> << Token(IF keyword # Null THEN keyword ELSE "IDENTIFIER",
                                identifier, st) >>])))
    ELSE IF IsDigit(char) THEN
        Bind(readNumber(input, st), LAMBDA e :
             [ok |-> TRUE, st |-> e,
              emit |-> << Token("NUMBER", Taken(input, st, e), st) >>])
    ELSE IF char = "\"" THEN
        Bind(readString(input, a1), LAMBDA e :
             IF Lexer_peek(input, e, 0) # "\""
             THEN LexError("Unterminated string", "", st)
             ELSE [ok |-> TRUE, st |-> Lexer_advance(input, e),
                   emit |-> << Token("STRING", Taken(input, a1, e), st) >>])
    ELSE IF char = "(" THEN one("LPAREN")
    ELSE IF char = ")" THEN one("RPAREN")
    ELSE IF char = "," THEN one("COMMA")
    ELSE IF char = ":" /\ Lexer_peek(input, st, 1) = ":" THEN
        [ok |-> TRUE, st |-> a2, emit |-> << Token("DOUBLE_COLON", "::", st) >>]
    ELSE IF char = "." THEN one("DOT")
    ELSE IF char = "-" /\ Lexer_peek(input, st, 1) = ">" THEN
        [ok |-> TRUE, st |-> a2, emit |-> << Token("ARROW", "->", st) >>]
    ELSE IF char = "-" THEN one("DASH")
    ELSE IF b = "dist" /\ char = "*" THEN one("STAR")
    ELSE IF b = "dist" /\ char = "@" THEN one("AT")
    ELSE LexError("Unexpected character", char, st)

\* One iteration of tokenize's loop from `st0`: skipWhitespace, then the
\* loop's exit test (after it, the EOF token is pushed), then the scan.
ScanNext(b, input, st0) ==
    Bind(skipWhitespace(input, st0), LAMBDA st :
        IF st.pos >= Len(input)
        THEN [ok |-> TRUE, st |-> st, emit |-> << Token("EOF", "", st) >>,
              atEnd |-> TRUE]
        ELSE ScanToken(b, input, st))

\* Up to 2^k iterations of tokenize's loop from `st0`, the second half
\* run after the first (halving keeps the evaluation shallow):
\* [ok, st, emit, atEnd] or the lexical error of the first failing iteration.
RECURSIVE LexRun(_, _, _, _)
LexRun(b, input, st0, k) ==
    IF k = 0
    THEN Bind(ScanNext(b, input, st0), LAMBDA r :
              IF r.ok THEN [ok |-> TRUE, st |-> r.st, emit |-> r.emit,
                            atEnd |-> "atEnd" \in DOMAIN r]
              ELSE r)
    ELSE Bind(LexRun(b, input, st0, k - 1), LAMBDA first :
              IF ~first.ok \/ first.atEnd THEN first
              ELSE Bind(LexRun(b, input, first.st, k - 1), LAMBDA second :
                        IF ~second.ok THEN second
                        ELSE [second EXCEPT !.emit = first.emit \o @]))

\* `while (this.pos < this.input.length)` of tokenize, then the EOF token
RECURSIVE LexLoop(_, _, _, _, _)
LexLoop(b, input, st0, toks, k) ==
    Bind(LexRun(b, input, st0, k), LAMBDA run :
        IF ~run.ok THEN run
        ELSE IF run.atEnd THEN [ok |-> TRUE, tokens |-> toks \o run.emit]
        ELSE Bind(toks \o run.emit, LAMBDA pushed :
                  LexLoop(b, input, run.st, pushed, k + 1)))

\* new Lexer(input).tokenize(): [ok |-> TRUE, tokens] or a lexical error
tokenize(b, input) == LexLoop(b, input, LexStart, << >>, 0)

TypesOf(toks) == [i \in 1..Len(toks) |-> toks[i].type]

(***************************************************************************)
(* Parser: the token helpers.  `toks` is Parser.tokens (always ended by    *)
(* one EOF token), `p` is Parser.pos (0-based).                            *)
(***************************************************************************)
Parser_peek(toks, p) == toks[p + 1]
isAtEnd(toks, p) == Parser_peek(toks, p).type = "EOF"
check(toks, p, type) == Parser_peek(toks, p).type = type
\* advance(): the position after it
Parser_advance(toks, p) == IF isAtEnd(toks, p) THEN p ELSE p + 1

\* an error that names the first token of the text
Throw_atStart(toks, p, message) ==
    [ok |-> FALSE, kind |-> "Grammar", message |-> message, pos |-> p,
     got |-> Parser_peek(toks, p).type,
     line |-> Parser_peek(toks, 0).line, column |-> Parser_peek(toks, 0).column]

\* expect() failing: the Error thrown
\*   `${message} at line ${token.line}, column ${token.column}. Got ${token.type}`
Throw(toks, p, message) ==
    [ok |-> FALSE, kind |-> "Grammar", message |-> message, pos |-> p,
     got |-> Parser_peek(toks, p).type,
     line |-> Parser_peek(toks, p).line, column |-> Parser_peek(toks, p).column]

Ok(p, node) == [ok |-> TRUE, pos |-> p, node |-> node]

PositionOf(tok) == [line |-> tok.line, column |-> tok.column]

DigitValue == [c \in Digits |->
    CASE c = "0" -> 0 [] c = "1" -> 1 [] c = "2" -> 2 [] c = "3" -> 3
      [] c = "4" -> 4 [] c = "5" -> 5 [] c = "6" -> 6 [] c = "7" -> 7
      [] c = "8" -> 8 [] c = "9" -> 9]

\* parseInt(value, 10) on a NUMBER token's value (digits only)
RECURSIVE parseInt(_)
parseInt(s) ==
    IF s = "" THEN 0
    ELSE Bind(SubSeq(s, 1, Len(s) - 1), LAMBDA front :
              10 * parseInt(front) + DigitValue[SubSeq(s, Len(s), Len(s))])

\* expect(type, message): the token consumed and the position after it, or
\* the Error thrown
expect(toks, p, type, message) ==
    IF check(toks, p, type)
    THEN Ok(Parser_advance(toks, p), Parser_peek(toks, p))
    ELSE Throw(toks, p, message)

\* match(type): the position after it
match(toks, p, type) == IF check(toks, p, type) THEN Parser_advance(toks, p) ELSE p

\* sequencing: an Error thrown by r propagates, otherwise K continues with r
Then(r, K(_)) == CHOOSE y \in {IF x.ok THEN K(x) ELSE x : x \in {r}} : TRUE

parsePortOrRange(toks, p) ==
    Then(expect(toks, p, "NUMBER", "Expected port number"), LAMBDA startPort :
        IF check(toks, startPort.pos, "DASH")
        THEN Then(expect(toks, match(toks, startPort.pos, "DASH"), "NUMBER",
                         "Expected end port number"), LAMBDA endPort :
                 Ok(endPort.pos,
                    [portRange |-> [start |-> parseInt(startPort.node.value),
                                    end |-> parseInt(endPort.node.value)]]))
        ELSE Ok(startPort.pos, [port |-> parseInt(startPort.node.value)]))

\* a spec that loses its wrapper's protocol
WithProtocol_alwaysTCP(protocol, spec) ==
    IF "port" \in DOMAIN spec
    THEN [protocol |-> "TCP", port |-> spec.port]
    ELSE [protocol |-> "TCP", portRange |-> spec.portRange]

\* { protocol, ...spec }
WithProtocol(protocol, spec) ==
    IF "port" \in DOMAIN spec
    THEN [protocol |-> protocol, port |-> spec.port]
    ELSE [protocol |-> protocol, portRange |-> spec.portRange]

parsePortSpec(toks, p) ==
    IF check(toks, p, "UDP")
    THEN Then(expect(toks, match(toks, p, "UDP"), "LPAREN",
                     "Expected opening parenthesis after UDP"), LAMBDA lparen :
         Then(parsePortOrRange(toks, lparen.pos), LAMBDA innerSpec :
         Then(expect(toks, innerSpec.pos, "RPAREN",
                     "Expected closing parenthesis after UDP port"), LAMBDA rparen :
              Ok(rparen.pos, WithProtocol("UDP", innerSpec.node)))))
    ELSE Then(parsePortOrRange(toks, p), LAMBDA spec :
              Ok(spec.pos, WithProtocol("TCP", spec.node)))

\* do { ports.push(parsePortSpec()) } while (match('COMMA'))
RECURSIVE parsePortList(_, _, _)
parsePortList(toks, p, ports) ==
    Then(parsePortSpec(toks, p), LAMBDA r :
        IF check(toks, r.pos, "COMMA")
        THEN parsePortList(toks, match(toks, r.pos, "COMMA"), Append(ports, r.node))
        ELSE Ok(r.pos, Append(ports, r.node)))

\* the optional parenthesized port list of a connector, from position p
parseOptionalPorts(toks, p) ==
    IF check(toks, p, "LPAREN")
    THEN Then(parsePortList(toks, match(toks, p, "LPAREN"), << >>), LAMBDA r :
         Then(expect(toks, r.pos, "RPAREN", "Expected closing parenthesis"),
              LAMBDA rparen : Ok(rparen.pos, r.node)))
    ELSE Ok(p, << >>)

\* src/parser.ts: the role follows from the presence of ports
roleOf_src(ports) == IF Len(ports) > 0 THEN "sercon" ELSE "clicon"

parseConnector_src(toks, p) ==
    Then(expect(toks, p, "IDENTIFIER", "Expected connector name"), LAMBDA nameToken :
    Then(parseOptionalPorts(toks, nameToken.pos), LAMBDA ports :
         Ok(ports.pos, [type |-> roleOf_src(ports.node),
                        name |-> nameToken.node.value,
                        ports |-> ports.node,
                        position |-> PositionOf(Parser_peek(toks, p))])))

\* dist/parser.js: the role follows from the '*' prefix
roleOf_dist(isClient) == IF isClient THEN "clicon" ELSE "sercon"

parseConnector_dist(toks, p) ==
    Then(expect(toks, match(toks, p, "STAR"), "IDENTIFIER",
                "Expected connector name"), LAMBDA nameToken :
    Then(parseOptionalPorts(toks, nameToken.pos), LAMBDA ports :
         Ok(ports.pos, [type |-> roleOf_dist(check(toks, p, "STAR")),
                        name |-> nameToken.node.value,
                        ports |-> ports.node,
                        position |-> PositionOf(Parser_peek(toks, p))])))

parseConnector(b, toks, p) ==
    IF b = "dist" THEN parseConnector_dist(toks, p) ELSE parseConnector_src(toks, p)

isNodeClassStart(toks, p) ==
    IF ~check(toks, p, "IDENTIFIER") THEN FALSE
    ELSE IF p + 1 < Len(toks) THEN toks[p + 2].type = "DOUBLE_COLON"
    ELSE FALSE

\* the condition of parseNodeClass's connector loop
connectorLoopCondition(b, toks, p) ==
    /\ \/ check(toks, p, "IDENTIFIER")
       \/ b = "dist" /\ check(toks, p, "STAR")
    /\ ~isNodeClassStart(toks, p)

RECURSIVE parseConnectors(_, _, _, _)
parseConnectors(b, toks, p, connectors) ==
    IF connectorLoopCondition(b, toks, p)
    THEN Then(parseConnector(b, toks, p), LAMBDA r :
              parseConnectors(b, toks, r.pos, Append(connectors, r.node)))
    ELSE Ok(p, connectors)

parseNodeClass(b, toks, p) ==
    Then(expect(toks, p, "IDENTIFIER", "Expected node class name"), LAMBDA nameToken :
    Then(expect(toks, nameToken.pos, "DOUBLE_COLON",
                "Expected :: after node class name"), LAMBDA colons :
    Then(parseConnectors(b, toks, colons.pos, << >>), LAMBDA r :
         Ok(r.pos, [kind |-> "NodeClass",
                    name |-> nameToken.node.value,
                    connectors |-> r.node,
                    position |-> PositionOf(nameToken.node)]))))

parseLinkClass(toks, p) ==
    Then(expect(toks, p, "IDENTIFIER", "Expected from node class"), LAMBDA fromNodeClass :
    Then(expect(toks, fromNodeClass.pos, "DOT", "Expected dot"), LAMBDA dot1 :
    Then(expect(toks, dot1.pos, "IDENTIFIER", "Expected from connector"), LAMBDA fromConnector :
    Then(expect(toks, fromConnector.pos, "ARROW", "Expected -> arrow"), LAMBDA arrow :
    Then(expect(toks, arrow.pos, "IDENTIFIER", "Expected to node class"), LAMBDA toNodeClass :
    Then(expect(toks, toNodeClass.pos, "DOT", "Expected dot"), LAMBDA dot2 :
    Then(expect(toks, dot2.pos, "IDENTIFIER", "Expected to connector"), LAMBDA toConnector :
         Ok(toConnector.pos,
            [kind |-> "LinkClass",
             from |-> [nodeClass |-> fromNodeClass.node.value,
                       connector |-> fromConnector.node.value],
             to |-> [nodeClass |-> toNodeClass.node.value,
                     connector |-> toConnector.node.value],
             position |-> PositionOf(fromNodeClass.node)]))))))))

\* while (match('DOT')) parts.push(expect('NUMBER').value); parts.join('.')
RECURSIVE parseIPAddressRest(_, _, _)
parseIPAddressRest(toks, p, ip) ==
    IF check(toks, p, "DOT")
    THEN Then(expect(toks, match(toks, p, "DOT"), "NUMBER",
                     "Expected IP address octet"), LAMBDA octet :
              parseIPAddressRest(toks, octet.pos, ip \o "." \o octet.node.value))
    ELSE Ok(p, ip)

parseIPAddress(toks, p) ==
    Then(expect(toks, p, "NUMBER", "Expected IP address octet"), LAMBDA first :
         parseIPAddressRest(toks, first.pos, first.node.value))

\* { name, ip }: ip is undefined (Null) without a parenthesized address
parseInstanceEntry(toks, p) ==
    Then(expect(toks, p, "IDENTIFIER", "Expected instance name"), LAMBDA nameToken :
        IF check(toks, nameToken.pos, "LPAREN")
        THEN Then(parseIPAddress(toks, match(toks, nameToken.pos, "LPAREN")), LAMBDA ip :
             Then(expect(toks, ip.pos, "RPAREN",
                         "Expected closing parenthesis after IP address"), LAMBDA rparen :
                  Ok(rparen.pos, [name |-> nameToken.node.value, ip |-> ip.node])))
        ELSE Ok(nameToken.pos, [name |-> nameToken.node.value, ip |-> Null]))

RECURSIVE parseInstanceEntries(_, _, _)
parseInstanceEntries(toks, p, instances) ==
    Then(parseInstanceEntry(toks, p), LAMBDA r :
        IF check(toks, r.pos, "COMMA")
        THEN parseInstanceEntries(toks, match(toks, r.pos, "COMMA"),
                                  Append(instances, r.node))
        ELSE Ok(r.pos, Append(instances, r.node)))

parseInstance(toks, p) ==
    Then(expect(toks, p, "IDENTIFIER", "Expected node class name"), LAMBDA nodeClassToken :
    Then(parseInstanceEntries(toks, nodeClassToken.pos, << >>), LAMBDA r :
         Ok(r.pos, [kind |-> "Instance",
                    nodeClass |-> nodeClassToken.node.value,
                    instances |-> r.node,
                    position |-> PositionOf(nodeClassToken.node)])))

parseNAT(toks, p) ==
    Then(expect(toks, p, "AT", "Expected @ for NAT"), LAMBDA startToken :
    Then(expect(toks, startToken.pos, "IDENTIFIER", "Expected NAT name"), LAMBDA nameToken :
    Then(expect(toks, nameToken.pos, "LPAREN", "Expected opening parenthesis"), LAMBDA lparen :
    Then(parseIPAddress(toks, lparen.pos), LAMBDA externalIp :
    Then(expect(toks, externalIp.pos, "COMMA", "Expected comma between IPs"), LAMBDA comma :
    Then(parseIPAddress(toks, comma.pos), LAMBDA internalIp :
    Then(expect(toks, internalIp.pos, "RPAREN", "Expected closing parenthesis"), LAMBDA rparen :
         Ok(rparen.pos, [kind |-> "NAT",
                         name |-> nameToken.node.value,
                         externalIp |-> externalIp.node,
                         internalIp |-> internalIp.node,
                         position |-> PositionOf(startToken.node)]))))))))

parseConnection(toks, p) ==
    Then(expect(toks, p, "IDENTIFIER", "Expected from instance"), LAMBDA fromToken :
    Then(expect(toks, fromToken.pos, "ARROW", "Expected -> arrow"), LAMBDA arrow :
    Then(expect(toks, arrow.pos, "IDENTIFIER", "Expected to instance"), LAMBDA toToken :
         Ok(toToken.pos, [kind |-> "Connection",
                          from |-> fromToken.node.value,
                          to |-> toToken.node.value,
                          position |-> PositionOf(fromToken.node)]))))

parseInclude(toks, p) ==
    Then(expect(toks, p, "INCLUDE", "Expected include"), LAMBDA startToken :
    Then(expect(toks, startToken.pos, "STRING", "Expected file path string"), LAMBDA pathToken :
         Ok(pathToken.pos, [kind |-> "Include",
                            path |-> pathToken.node.value,
                            position |-> PositionOf(startToken.node)])))

(***************************************************************************)
(* parseTopLevel: [ok, pos, node, section] with node.kind = "none" for the *)
(* source's `return null`, or the Error thrown.                            *)
(***************************************************************************)
NoNode == [kind |-> "none"]

Under(r, section) ==
    IF r.ok THEN [ok |-> TRUE, pos |-> r.pos, node |-> r.node, section |-> section]
    ELSE r

SectionOfMarker_shifted ==
    [SECTION_NODECLASS |-> "nodeclass", SECTION_LINKCLASS |-> "linkclass",
     SECTION_INSTANCES |-> "connections", SECTION_NATS |-> "nats",
     SECTION_CONNECTIONS |-> "instances"]

\* the section a section-marker token type selects
SectionOfMarker ==
    [SECTION_NODECLASS |-> "nodeclass", SECTION_LINKCLASS |-> "linkclass",
     SECTION_INSTANCES |-> "instances", SECTION_NATS |-> "nats",
     SECTION_CONNECTIONS |-> "connections"]

parseTopLevel_src(toks, p, section) ==
    LET type == Parser_peek(toks, p).type
    IN IF type \in {"SECTION_NODECLASS", "SECTION_LINKCLASS",
                    "SECTION_INSTANCES", "SECTION_CONNECTIONS"}
       THEN Under(Ok(Parser_advance(toks, p), NoNode), SectionOfMarker[type])
       ELSE IF type = "INCLUDE" THEN Under(parseInclude(toks, p), section)
       ELSE IF type = "IDENTIFIER" /\ section = "nodeclass"
       THEN Under(parseNodeClass("src", toks, p), section)
       ELSE IF type = "IDENTIFIER" /\ section = "linkclass"
       THEN Under(parseLinkClass(toks, p), section)
       ELSE IF type = "IDENTIFIER" /\ section = "instances"
       THEN Under(parseInstance(toks, p), section)
       ELSE IF type = "IDENTIFIER" /\ section = "connections"
       THEN Under(parseConnection(toks, p), section)
       ELSE Under(Ok(p, NoNode), section)

parseTopLevel_dist(toks, p, section) ==
    LET type == Parser_peek(toks, p).type
    IN IF type \in {"SECTION_NODECLASS", "SECTION_LINKCLASS", "SECTION_INSTANCES",
                    "SECTION_NATS", "SECTION_CONNECTIONS"}
       THEN Under(Ok(Parser_advance(toks, p), NoNode), SectionOfMarker[type])
       ELSE IF type = "INCLUDE" THEN Under(parseInclude(toks, p), section)
       ELSE IF section = "nodeclass" /\ type = "IDENTIFIER"
       THEN Under(parseNodeClass("dist", toks, p), section)
       ELSE IF section = "linkclass" /\ type = "IDENTIFIER"
       THEN Under(parseLinkClass(toks, p), section)
       ELSE IF section = "instances" /\ type = "IDENTIFIER"
       THEN Under(parseInstance(toks, p), section)
       ELSE IF section = "nats" /\ type = "AT"
       THEN Under(parseNAT(toks, p), section)
       ELSE IF section = "connections" /\ type = "IDENTIFIER"
       THEN Under(parseConnection(toks, p), section)
       ELSE Under(Ok(p, NoNode), section)

parseTopLevel(b, toks, p, section) ==
    IF b = "dist" THEN parseTopLevel_dist(toks, p, section)
    ELSE parseTopLevel_src(toks, p, section)

(***************************************************************************)
(* The parser as a state machine.  One step is one iteration of            *)
(* parseContent's loop (with everything the iteration calls), or the       *)
(* return of one parseContent.                                             *)
(***************************************************************************)
\* the fresh `ast` of parseContent; the src build's AST has no nats
EmptyAST(b) ==
    IF b = "dist"
    THEN [includes |-> << >>, nodeClasses |-> << >>, linkClasses |-> << >>,
          instances |-> << >>, nats |-> << >>, connections |-> << >>]
    ELSE [includes |-> << >>, nodeClasses |-> << >>, linkClasses |-> << >>,
          instances |-> << >>, connections |-> << >>]

\* ast.<collection>.push(node) of parseContent's loop
PushNode(a, node) ==
    CASE node.kind = "Include"    -> [a EXCEPT !.includes = Append(@, node)]
      [] node.kind = "NodeClass"  -> [a EXCEPT !.nodeClasses = Append(@, node)]
      [] node.kind = "LinkClass"  -> [a EXCEPT !.linkClasses = Append(@, node)]
      [] node.kind = "Instance"   -> [a EXCEPT !.instances = Append(@, node)]
      [] node.kind = "NAT"        -> [a EXCEPT !.nats = Append(@, node)]
      [] node.kind = "Connection" -> [a EXCEPT !.connections = Append(@, node)]
      [] OTHER -> a

MergeIncluded_everything(outer, includedAst) ==
    [outer EXCEPT !.nodeClasses = @ \o includedAst.nodeClasses,
                  !.linkClasses = @ \o includedAst.linkClasses,
                  !.instances = @ \o includedAst.instances,
                  !.connections = @ \o includedAst.connections]

\* a merge that puts the included file's classes first
MergeIncluded_prepended(outer, includedAst) ==
    [outer EXCEPT !.nodeClasses = includedAst.nodeClasses \o @,
                  !.linkClasses = includedAst.linkClasses \o @]

\* a merge that takes the included file's include records too
MergeIncluded_withIncludes(outer, includedAst) ==
    [outer EXCEPT !.includes = @ \o includedAst.includes,
                  !.nodeClasses = @ \o includedAst.nodeClasses,
                  !.linkClasses = @ \o includedAst.linkClasses]

\* processInclude's merge of the included AST into the including one
MergeIncluded(outer, includedAst) ==
    [outer EXCEPT !.nodeClasses = @ \o includedAst.nodeClasses,
                  !.linkClasses = @ \o includedAst.linkClasses]

\* a processInclude without its first guard
IncludeDecision_unguarded(hasResolver, visited, path) ==
    IF path \in visited THEN "skipped" ELSE "resolve"

IncludeDecision_always(hasResolver, visited, path) ==
    IF ~hasResolver THEN "noResolver" ELSE "resolve"

\* what processInclude does with an Include node:
\*   "noResolver" (line 59/65), "skipped" (already visited), "resolve"
IncludeDecision(hasResolver, visited, path) ==
    IF ~hasResolver THEN "noResolver"
    ELSE IF path \in visited THEN "skipped"
    ELSE "resolve"

\* the resolver throws for a path the host does not know
ResolverError(path) == [ok |-> FALSE, kind |-> "Resolver", path |-> path]

NoStep == [op |-> "none"]

InitialIncludedPaths_none(filePath) == {}

\* a visited set that outlives the call
InitialIncludedPaths_kept(filePath) ==
    includedPaths \cup (IF filePath \notin {Null, ""} THEN {filePath} ELSE {})

\* parse, lines 21-24: the visited set starts with the file's own path, when
\* `if (this.currentPath)` finds it truthy (undefined and "" are not)
InitialIncludedPaths(filePath) ==
    IF filePath \notin {Null, ""} THEN {filePath} ELSE {}

\* the history kept beside the program's state:
\*   instances, nats, connections - what the loop of the outermost
\*                                  parseContent produced itself
\*   revisitedTop - positions (Parser.pos) of the outermost text's include
\*                directives that named a path already visited, a resolver
\*                being set
\*   replay     - the earlier result, while the same text is parsed again
\*                with its item k blanked
\*   calls      - the earlier calls of parse on this Parser: text, options
\*                and what each returned or raised
NoReplay(b) == [on |-> FALSE, k |-> 0, first |-> EmptyAST(b)]

FreshGhost(b) ==
    [instances |-> << >>, nats |-> << >>, connections |-> << >>,
     revisitedTop |-> {}, directives |-> << >>, replay |-> NoReplay(b),
     calls |-> << >>]

Declare(g, node) ==
    CASE node.kind = "Instance"   -> [g EXCEPT !.instances = Append(@, node)]
      [] node.kind = "NAT"        -> [g EXCEPT !.nats = Append(@, node)]
      [] node.kind = "Connection" -> [g EXCEPT !.connections = Append(@, node)]
      [] OTHER -> g

\* a parse unit that starts under the section the parser was left in
UnitStartSection_inherited(section) == section

\* parseContent: this.currentSection = null
UnitStartSection(section) == Null

\* Parser.parse(input, opts) up to the first loop test of parseContent
BeginFields(input, opts) ==
    /\ fileResolver' = opts.fileResolver
    /\ currentPath' = opts.filePath
    /\ includedPaths' = InitialIncludedPaths(opts.filePath)
    /\ \E lexed \in {tokenize(build, input)} :
          IF lexed.ok
          THEN /\ tokens' = lexed.tokens
               /\ pos' = 0
               /\ currentSection' = UnitStartSection(currentSection)
               /\ ast' = EmptyAST(build)
               /\ status' = "parsing"
               /\ result' = [ok |-> FALSE, kind |-> "none"]
          ELSE /\ status' = "error"
               /\ result' = lexed
               /\ UNCHANGED << tokens, pos, currentSection, ast >>
    /\ callStack' = << >>
    /\ resolverCalls' = << >>
    /\ lastStep' = [op |-> "parse"]

\* the call leaves the host's text pieces, files and options as they are
BeginWith(input, opts) ==
    /\ BeginFields(input, opts)
    /\ UNCHANGED << build, files, options, items, layout >>

\* Parser.parse called with the options the host holds
Begin(input) == BeginWith(input, options)

Parse ==
    /\ status = "idle"
    /\ text' = text
    /\ ghost' = ghost
    /\ Begin(text)

\* One iteration of `while (!this.isAtEnd())` in parseContent.  An Error
\* thrown anywhere below it unwinds every suspended processInclude frame
\* (nothing in the parser catches), leaving the parser's fields as they are.
TopLevelStep ==
    /\ status = "parsing"
    /\ ~isAtEnd(tokens, pos)
    /\ \E r \in {parseTopLevel(build, tokens, pos, currentSection)} :
       LET step(included) ==
               [op |-> "parseTopLevel", token |-> Parser_peek(tokens, pos).type,
                section |-> currentSection, depth |-> Len(callStack),
                node |-> IF r.ok THEN r.node.kind ELSE "error",
                made |-> IF r.ok THEN r.node ELSE NoNode,
                consumed |-> r.pos - pos, included |-> included]
       IN
       IF ~r.ok
       THEN /\ status' = "error"
            /\ result' = r
            /\ pos' = r.pos
            /\ callStack' = << >>
            /\ lastStep' = step("none")
            /\ UNCHANGED << tokens, currentSection, currentPath, includedPaths,
                            ast, resolverCalls, ghost >>
       ELSE IF r.node.kind # "Include"
       THEN /\ pos' = r.pos
            /\ currentSection' = r.section
            /\ ast' = PushNode(ast, r.node)
            /\ lastStep' = step("none")
            /\ ghost' = IF callStack = << >> THEN Declare(ghost, r.node) ELSE ghost
            /\ UNCHANGED << status, result, tokens, currentPath, includedPaths,
                            callStack, resolverCalls >>
       ELSE LET decision == IncludeDecision(fileResolver, includedPaths, r.node.path)
                recorded == PushNode(ast, r.node)
                Revisit(g, path) ==
                    [(IF callStack = << >> /\ fileResolver /\ path \in includedPaths
                      THEN [g EXCEPT !.revisitedTop = @ \cup {pos}]
                      ELSE g)
                     EXCEPT !.directives =
                                Append(@, [path |-> path, depth |-> Len(callStack)])]
            IN
            IF decision # "resolve"
            THEN /\ pos' = r.pos
                 /\ currentSection' = r.section
                 /\ ast' = recorded
                 /\ lastStep' = step(decision)
                 /\ ghost' = Revisit(ghost, r.node.path)
                 /\ UNCHANGED << status, result, tokens, currentPath,
                                 includedPaths, callStack, resolverCalls >>
            ELSE /\ includedPaths' = includedPaths \cup {r.node.path}
                 /\ resolverCalls' = Append(resolverCalls,
                        [path |-> r.node.path, fromPath |-> currentPath])
                 /\ ghost' = Revisit(ghost, r.node.path)
                 /\ IF r.node.path \notin DOMAIN files
                    THEN /\ status' = "error"
                         /\ result' = ResolverError(r.node.path)
                         /\ pos' = r.pos
                         /\ ast' = recorded
                         /\ callStack' = << >>
                         /\ lastStep' = step("resolverThrew")
                         /\ UNCHANGED << tokens, currentSection, currentPath >>
                    ELSE \E lexed \in {tokenize(build, files[r.node.path])} :
                         LET frame == [savedTokens |-> tokens, savedPos |-> r.pos,
                                       savedPath |-> currentPath,
                                       savedSection |-> r.section,
                                       ast |-> recorded]
                         IN /\ currentPath' = r.node.path
                            /\ IF lexed.ok
                               THEN /\ callStack' = Append(callStack, frame)
                                    /\ tokens' = lexed.tokens
                                    /\ pos' = 0
                                    /\ currentSection' = UnitStartSection(currentSection)
                                    /\ ast' = EmptyAST(build)
                                    /\ lastStep' = step("entered")
                                    /\ UNCHANGED << status, result >>
                               ELSE /\ callStack' = << >>
                                    /\ status' = "error"
                                    /\ result' = lexed
                                    /\ pos' = r.pos
                                    /\ ast' = recorded
                                    /\ lastStep' = step("lexerThrew")
                                    /\ UNCHANGED << tokens, currentSection >>
    /\ UNCHANGED << build, files, options, fileResolver, items, text, layout >>

\* a return that leaves the included file's last section in place
RestoredSection_kept(frame, section) == section

\* this.currentSection = savedSection
RestoredSection(frame, section) == frame.savedSection

\* parseContent of an included file returns: processInclude merges and
\* restores the saved parser state.
IncludeReturn ==
    /\ status = "parsing"
    /\ isAtEnd(tokens, pos)
    /\ callStack # << >>
    /\ LET frame == callStack[Len(callStack)]
       IN /\ ast' = MergeIncluded(frame.ast, ast)
          /\ tokens' = frame.savedTokens
          /\ pos' = frame.savedPos
          /\ currentPath' = frame.savedPath
          /\ currentSection' = RestoredSection(frame, currentSection)
          /\ callStack' = SubSeq(callStack, 1, Len(callStack) - 1)
          /\ lastStep' = [op |-> "includeReturn", depth |-> Len(callStack),
                          path |-> currentPath, section |-> currentSection]
    /\ UNCHANGED << build, files, options, fileResolver, status, includedPaths,
                    resolverCalls, items, text, result, layout, ghost >>

\* the outermost parseContent returns its ast to parse's caller
ParseReturn ==
    /\ status = "parsing"
    /\ isAtEnd(tokens, pos)
    /\ callStack = << >>
    /\ status' = "done"
    /\ result' = [ok |-> TRUE, ast |-> ast]
    /\ lastStep' = [op |-> "return"]
    /\ UNCHANGED << build, files, options, fileResolver, tokens, pos,
                    currentSection, currentPath, includedPaths, ast, callStack,
                    resolverCalls, items, text, layout, ghost >>

(***************************************************************************)
(* Visualizer: the render model and the layered layout.                    *)
(* A JavaScript Map is a function; Map.get(k) || d is Get.                 *)
(***************************************************************************)
canvasWidth == 1200
canvasHeight == 800
nodeWidth == 200
nodeHeight == 100
padding == 40
connectorSpacing == 24
contentStart_schema == 40
contentStart_instances == 55
labelRoom == 15
natHeight == 60
natWidth == 120

columnSpacing == nodeWidth + padding * 3
rowSpacing == nodeHeight + padding * 2

EmptyMap == << >>
Get(map, key, default) == IF key \in DOMAIN map THEN map[key] ELSE default
Put(map, key, value) == (key :> value) @@ map

Max2(a, b) == IF a >= b THEN a ELSE b
MaxOf(values) == CHOOSE m \in Range(values) : \A v \in Range(values) : m >= v
MinOf(values) == CHOOSE m \in Range(values) : \A v \in Range(values) : m =< v

\* the `from` names of the edges into `name`, in edge order
RECURSIVE FromsInto(_, _)
FromsInto(edges, name) ==
    IF edges = << >> THEN << >>
    ELSE (IF Head(edges).to = name THEN << Head(edges).from >> ELSE << >>)
         \o FromsInto(Tail(edges), name)

\* the `incoming` map: a key for every declared name;
\* incoming.get(edge.to)?.push(edge.from) for every edge
Incoming(declared, edges) == [n \in declared |-> FromsInto(edges, n)]

layerAbove_min(values) == MinOf(values) + 1

\* Math.max(...incomingNodes.map(assignLayer)) + 1
layerAbove(values) == MaxOf(values) + 1

\* a back-edge counted as a layer of its own
onBackEdge_counted(st) == [value |-> 1, st |-> st]

\* if (visited.has(name)) return 0; // cycle detection
onBackEdge(st) == [value |-> 0, st |-> st]

\* The closure assignLayer with its captured `layers` and `visited`:
\* st = [layers, visited, entered], entered listing the visited.add calls
\* in order; the result is [value, st].
RECURSIVE assignLayer(_, _, _)
RECURSIVE assignLayers(_, _, _, _)
assignLayers(incoming, names, st, values) ==
    IF names = << >> THEN [values |-> values, st |-> st]
    ELSE Bind(assignLayer(incoming, Head(names), st), LAMBDA r :
              assignLayers(incoming, Tail(names), r.st, Append(values, r.value)))

assignLayer(incoming, name, st) ==
    IF name \in DOMAIN st.layers THEN [value |-> st.layers[name], st |-> st]
    ELSE IF name \in st.visited THEN onBackEdge(st)
    ELSE Bind([st EXCEPT !.visited = @ \cup {name},
                         !.entered = Append(@, name)], LAMBDA st1 :
         Bind(Get(incoming, name, << >>), LAMBDA incomingNodes :
              IF Len(incomingNodes) = 0
              THEN [value |-> 0, st |-> [st1 EXCEPT !.layers = Put(@, name, 0)]]
              ELSE Bind(assignLayers(incoming, incomingNodes, st1, << >>), LAMBDA m :
                   Bind(layerAbove(m.values), LAMBDA layer :
                        [value |-> layer,
                         st |-> [m.st EXCEPT !.layers = Put(@, name, layer)]]))))

NoLayers == [layers |-> EmptyMap, visited |-> {}, entered |-> << >>]

\* for (const e of entities) assignLayer(e.name)
AssignAll(incoming, names) == assignLayers(incoming, names, NoLayers, << >>).st

\* String.prototype.localeCompare on names of letters, digits and '_':
\* '_' before digits before letters; letters compared without case first,
\* lower case first between names that differ in case only
CollationOrder == << "_", "0", "1", "2", "3", "4", "5", "6", "7", "8", "9",
                     "a", "b", "c", "d", "e", "f", "g", "h", "i", "j", "k", "l",
                     "m", "n", "o", "p", "q", "r", "s", "t", "u", "v", "w", "x",
                     "y", "z" >>
CharRank(c) == CHOOSE i \in DOMAIN CollationOrder : CollationOrder[i] = c

RECURSIVE PrimaryBefore(_, _)
PrimaryBefore(a, b) ==
    IF a = "" THEN b # ""
    ELSE IF b = "" THEN FALSE
    ELSE IF Head(a) = Head(b) THEN PrimaryBefore(Tail(a), Tail(b))
    ELSE CharRank(Head(a)) < CharRank(Head(b))

RECURSIVE CaseBefore(_, _)
CaseBefore(a, b) ==
    IF a = "" \/ b = "" THEN FALSE
    ELSE IF Head(a) = Head(b) THEN CaseBefore(Tail(a), Tail(b))
    ELSE Head(a) \in LowerLetters

\* a.localeCompare(b) < 0
localeCompareBefore(a, b) ==
    \/ PrimaryBefore(toLowerCase(a), toLowerCase(b))
    \/ toLowerCase(a) = toLowerCase(b) /\ CaseBefore(a, b)

\* the sum of rowPositions.get(n) || 0 over the incoming names
RECURSIVE RowSum(_, _)
RowSum(rowPositions, names) ==
    IF names = << >> THEN 0
    ELSE Get(rowPositions, Head(names), 0) + RowSum(rowPositions, Tail(names))

\* aAvg - bAvg < 0, the means compared as fractions
AvgBefore(incoming, rowPositions, a, b) ==
    LET aIncoming == Get(incoming, a, << >>)
        bIncoming == Get(incoming, b, << >>)
    IN RowSum(rowPositions, aIncoming) * Max2(Len(bIncoming), 1)
         < RowSum(rowPositions, bIncoming) * Max2(Len(aIncoming), 1)

\* the comparator of a layer's sort says a goes before b: by name in
\* layer 0, by mean row of the incoming names in the others
ComesBefore(k, incoming, rowPositions, a, b) ==
    IF k = 0 THEN localeCompareBefore(a, b)
    ELSE AvgBefore(incoming, rowPositions, a, b)

\* Array.prototype.sort (stable) as an insertion sort: x goes before the
\* first element it must precede
RECURSIVE InsertInto(_, _, _, _, _)
InsertInto(sorted, x, k, incoming, rowPositions) ==
    IF sorted = << >> THEN << x >>
    ELSE IF ComesBefore(k, incoming, rowPositions, x, Head(sorted))
    THEN << x >> \o sorted
    ELSE << Head(sorted) >> \o InsertInto(Tail(sorted), x, k, incoming, rowPositions)

RECURSIVE SortLayer(_, _, _, _)
SortLayer(list, k, incoming, rowPositions) ==
    IF list = << >> THEN << >>
    ELSE InsertInto(SortLayer(SubSeq(list, 1, Len(list) - 1), k, incoming, rowPositions),
                    list[Len(list)], k, incoming, rowPositions)

NamesOf(list) == [i \in 1..Len(list) |-> list[i].name]

\* rowPositions.set(e.name, i) for the sorted entities, i from 0
RECURSIVE SetRows(_, _, _)
SetRows(rowPositions, sorted, i) ==
    IF sorted = << >> THEN rowPositions
    ELSE SetRows(Put(rowPositions, Head(sorted), i), Tail(sorted), i + 1)

\* the layer groups from layer k on, in ascending order of layer: group,
\* sort (layer 0 by name, the others by mean row of the incoming names),
\* number the rows
RECURSIVE RowsFrom(_, _, _, _, _, _)
RowsFrom(k, last, names, layers, incoming, rowPositions) ==
    IF k > last THEN rowPositions
    ELSE LET group == SelectSeq(names, LAMBDA n : Get(layers, n, 0) = k)
             sorted == SortLayer(group, k, incoming, rowPositions)
         IN RowsFrom(k + 1, last, names, layers, incoming,
                     SetRows(rowPositions, sorted, 0))

AssignRows(names, layers, incoming) ==
    IF names = << >> THEN EmptyMap
    ELSE RowsFrom(0, MaxOf([i \in 1..Len(names) |-> Get(layers, names[i], 0)]),
                  names, layers, incoming, EmptyMap)

OfType(connectors, type) == SelectSeq(connectors, LAMBDA c : c.type = type)

BoxHeight(nodeClass, contentStart) ==
    Max2(nodeHeight,
         contentStart
           + Max2(Len(OfType(nodeClass.connectors, "sercon")),
                  Len(OfType(nodeClass.connectors, "clicon"))) * connectorSpacing
           + labelRoom)

RenderedConnectors(nodeClass, contentStart) ==
    LET placed(list) == [ci \in 1..Len(list) |->
                            [name |-> list[ci].name, type |-> list[ci].type,
                             y |-> contentStart + (ci - 1) * connectorSpacing]]
    IN placed(OfType(nodeClass.connectors, "sercon"))
         \o placed(OfType(nodeClass.connectors, "clicon"))

BoxPosition(layers, rowPositions, name, width, height) ==
    [x |-> padding + Get(layers, name, 0) * columnSpacing,
     y |-> padding + Get(rowPositions, name, 0) * rowSpacing,
     width |-> width, height |-> height]

\* layoutSchema(ast): this.instances is rebuilt, this.nats is left alone
layoutSchema(v, a) ==
    LET names == NamesOf(a.nodeClasses)
        edges == [i \in 1..Len(a.linkClasses) |->
                     [from |-> a.linkClasses[i].from.nodeClass,
                      to |-> a.linkClasses[i].to.nodeClass]]
        incoming == Incoming(Range(names), edges)
        st == AssignAll(incoming, names)
        rowPositions == AssignRows(names, st.layers, incoming)
    IN [v EXCEPT
          !.instances = [i \in 1..Len(a.nodeClasses) |->
              [name |-> a.nodeClasses[i].name, ip |-> Null,
               nodeClass |-> a.nodeClasses[i],
               position |-> BoxPosition(st.layers, rowPositions, names[i], nodeWidth,
                                BoxHeight(a.nodeClasses[i], contentStart_schema)),
               connectors |-> RenderedConnectors(a.nodeClasses[i],
                                                 contentStart_schema)]],
          !.layers = st.layers, !.entered = st.entered,
          !.rowPositions = rowPositions]

\* for (inst of ast.instances) for (entry of inst.instances) allInstances.push
RECURSIVE Flatten(_)
Flatten(groups) ==
    IF groups = << >> THEN << >>
    ELSE [i \in 1..Len(Head(groups).instances) |->
             [name |-> Head(groups).instances[i].name,
              nodeClass |-> Head(groups).nodeClass,
              ip |-> Head(groups).instances[i].ip]]
         \o Flatten(Tail(groups))

\* nodeClassMap: the last node class of each name
RECURSIVE NodeClassMap(_)
NodeClassMap(nodeClasses) ==
    IF nodeClasses = << >> THEN EmptyMap
    ELSE Put(NodeClassMap(SubSeq(nodeClasses, 1, Len(nodeClasses) - 1)),
             nodeClasses[Len(nodeClasses)].name, nodeClasses[Len(nodeClasses)])

\* layoutInstances(ast) on an AST that has a nats list
layoutInstances(v, a) ==
    LET nodeClassMap == NodeClassMap(a.nodeClasses)
        allInstances == Flatten(a.instances)
        instanceNames == NamesOf(allInstances)
        natNames == NamesOf(a.nats)
        edges == [i \in 1..Len(a.connections) |->
                     [from |-> a.connections[i].from, to |-> a.connections[i].to]]
        incoming == Incoming(Range(instanceNames) \cup Range(natNames), edges)
        st == AssignAll(incoming, instanceNames \o natNames)
        rowPositions == AssignRows(instanceNames, st.layers, incoming)
        known == SelectSeq(allInstances, LAMBDA inst : inst.nodeClass \in DOMAIN nodeClassMap)
    IN [v EXCEPT
          !.instances = [i \in 1..Len(known) |->
              [name |-> known[i].name, ip |-> known[i].ip,
               nodeClass |-> nodeClassMap[known[i].nodeClass],
               position |-> BoxPosition(st.layers, rowPositions, known[i].name,
                                nodeWidth,
                                BoxHeight(nodeClassMap[known[i].nodeClass],
                                          contentStart_instances)),
               connectors |-> RenderedConnectors(nodeClassMap[known[i].nodeClass],
                                                 contentStart_instances)]],
          !.nats = [i \in 1..Len(a.nats) |->
              [name |-> a.nats[i].name, externalIp |-> a.nats[i].externalIp,
               internalIp |-> a.nats[i].internalIp,
               position |->
                   [BoxPosition(st.layers, rowPositions, a.nats[i].name,
                                natWidth, natHeight)
                    EXCEPT !.x = @ + (nodeWidth - natWidth) \div 2]]],
          !.layers = st.layers, !.entered = st.entered,
          !.rowPositions = rowPositions]

\* autoSizeCanvas(): the canvas grows to hold every box of this.instances
autoSizeCanvas(v) ==
    LET rights == {v.instances[i].position.x + v.instances[i].position.width :
                      i \in DOMAIN v.instances}
        bottoms == {v.instances[i].position.y + v.instances[i].position.height :
                      i \in DOMAIN v.instances}
        most(S) == CHOOSE m \in S \cup {0} : \A x \in S \cup {0} : m >= x
    IN [v EXCEPT !.canvas = [width |-> Max2(canvasWidth, most(rights) + padding),
                             height |-> Max2(canvasHeight, most(bottoms) + padding)]]

\* this.draggedNode: null, the element of this.instances at an index, or a
\* RenderedInstance that a later layout has dropped from this.instances
NoDrag == [kind |-> "null"]
Detached == [kind |-> "detached"]

\* a new Visualizer; drags counts the mousedown events that hit a box; layers, entered and rowPositions keep the locals of the
\* last layout, renders counts the render(ast, mode) calls
NoLayout ==
    [phase |-> "none", renders |-> 0, viewMode |-> "instances",
     instances |-> << >>, nats |-> << >>, connections |-> << >>,
     linkClasses |-> << >>,
     canvas |-> [width |-> canvasWidth, height |-> canvasHeight],
     layers |-> EmptyMap, entered |-> << >>, rowPositions |-> EmptyMap,
     draggedNode |-> NoDrag, drags |-> 0]

\* render(ast, mode) up to autoSizeCanvas; layoutInstances throws a
\* TypeError at ast.nats.map when the AST has no nats
renderModel(v, a, mode) ==
    LET viewMode == IF mode # Null THEN mode
                    ELSE IF Len(a.instances) > 0 THEN "instances" ELSE "schema"
        called == [v EXCEPT !.viewMode = viewMode, !.renders = @ + 1,
                            !.draggedNode = IF @.kind = "null" THEN @ ELSE Detached]
    IN IF viewMode = "schema"
       THEN autoSizeCanvas([layoutSchema([called EXCEPT !.instances = << >>], a)
                               EXCEPT !.linkClasses = a.linkClasses,
                                      !.phase = "rendered"])
       ELSE IF "nats" \notin DOMAIN a
       THEN [called EXCEPT !.instances = << >>, !.nats = << >>, !.phase = "threw"]
       ELSE autoSizeCanvas([layoutInstances(called, a)
                               EXCEPT !.connections = a.connections,
                                      !.phase = "rendered"])

MaxRenders == 1

\* render(ast, mode) with the AST that parse returned
Render ==
    /\ status = "done"
    /\ layout.renders < MaxRenders
    /\ \E mode \in {Null, "schema", "instances"} :
          layout' = renderModel(layout, result.ast, mode)
    /\ UNCHANGED << build, files, options, fileResolver, status, tokens, pos,
                    currentSection, currentPath, includedPaths, ast, callStack,
                    resolverCalls, lastStep, items, text, result, ghost >>

(***************************************************************************)
(* Inputs of the parser: texts built from source items, and the host's     *)
(* files.                                                                  *)
(***************************************************************************)
RECURSIVE Join(_)
Join(its) == IF its = << >> THEN "" ELSE Head(its) \o Join(Tail(its))

\* the item with every character but its line ends replaced by a space, so
\* that what follows it keeps its line and column
RECURSIVE Blank(_)
Blank(item) ==
    IF item = "" THEN ""
    ELSE (IF Head(item) = "\n" THEN "\n" ELSE " ") \o Blank(Tail(item))

IsDirective(item) == Len(item) >= 7 /\ SubSeq(item, 1, 7) = "include"

\* Parser.pos of the first token of item k (items end at token boundaries)
ItemTokenStart(b, its, k) ==
    Len(tokenize(b, Join(SubSeq(its, 1, k - 1))).tokens) - 1

\* A second call of Parser.parse on the same text and options, with one
\* include directive that named an already visited path blanked out of it.
Reparse ==
    /\ status = "done"
    /\ ~ghost.replay.on
    /\ \E k \in 1..Len(items) :
          /\ IsDirective(items[k])
          /\ ItemTokenStart(build, items, k) \in ghost.revisitedTop
          /\ LET without == Join([items EXCEPT ![k] = Blank(@)])
             IN /\ text' = without
                /\ ghost' = [FreshGhost(build) EXCEPT
                               !.replay = [on |-> TRUE, k |-> k,
                                           first |-> result.ast]]
                /\ Begin(without)

NextParse == Parse \/ TopLevelStep \/ IncludeReturn \/ ParseReturn \/ Reparse

MaxItems == 2

SectionItems == {"#nodeclass\n", "#linkclass\n", "#instances\n", "#NATs\n",
                 "#connections\n"}
ConstructItems == {"web:: listen (443) *db\n",
                   "dns:: q up (80, UDP(53), 8000-8080)\n",
                   "web.db -> sql.listen\n",
                   "web w1(10.0.0.1), w2\n", "@nat (203.0.113.10, 10.0.0.1)\n",
                   "w1 -> nat\n"}
IncludeItems == {"include \"A\"\n", "include \"M\"\n", "include \"E\"\n"}
StrayItems == {"7 ", "( ", ") ", ", ", ":: ", ". ", "-> ", "- ", "@ ", "* ",
               "\"s\" "}
Items == SectionItems \cup ConstructItems \cup IncludeItems \cup StrayItems

RECURSIVE SeqsOfLen(_, _)
SeqsOfLen(S, n) ==
    IF n = 0 THEN {<< >>}
    ELSE {Append(s, x) : s \in SeqsOfLen(S, n - 1), x \in S}

SeqsUpTo(S, n) == UNION {SeqsOfLen(S, k) : k \in 0..n}

NoFiles == << >>

\* a library whose files A and B include each other, with a file E that
\* breaks the grammar in its second line; no file "M" exists
LibraryFiles ==
    "A" :> "#nodeclass\nlibA:: p\ninclude \"B\"\n#instances\nlibA ia\n"
    @@ "B" :> "include \"A\"\n#linkclass\nlibA.p -> libA.p\n#connections\nia -> ia\n"
    @@ "E" :> "#linkclass\n  libA -> libB\n"

Environments ==
    { [files |-> NoFiles, options |-> [fileResolver |-> FALSE, filePath |-> Null]],
      [files |-> LibraryFiles, options |-> [fileResolver |-> TRUE, filePath |-> Null]],
      [files |-> LibraryFiles, options |-> [fileResolver |-> TRUE, filePath |-> "A"]] }

NoResult == [ok |-> FALSE, kind |-> "none"]

InitParser ==
    /\ text = Join(items)
    /\ fileResolver = FALSE
    /\ tokens = << >>
    /\ pos = 0
    /\ currentSection = Null
    /\ currentPath = Null
    /\ includedPaths = {}
    /\ ast = EmptyAST(build)
    /\ callStack = << >>
    /\ resolverCalls = << >>
    /\ lastStep = NoStep
    /\ layout = NoLayout
    /\ ghost = FreshGhost(build)

Init ==
    /\ build \in Builds
    /\ status = "idle"
    /\ result = NoResult
    /\ items \in SeqsUpTo(Items, MaxItems)
    /\ \E env \in Environments : files = env.files /\ options = env.options
    /\ InitParser

Next == NextParse

Spec == Init /\ [][Next]_vars

(***************************************************************************)
(* Include graphs: three files A, B, C, each with up to two include        *)
(* directives naming any of them (itself too); the text parsed is file A's.*)
(***************************************************************************)
Paths == {"A", "B", "C"}
Slots == Paths \cup {""}

IncludeOf(p) == IF p = "" THEN "" ELSE "include \"" \o p \o "\"\n"

Topology(p) ==
    IF p = "C"
    THEN "#instances\nnC iC\n#NATs\n@tC (192.0.2.7, 10.0.0.7)\n#connections\niC -> tC\n"
    ELSE "#instances\nn" \o p \o " i" \o p \o "\n#connections\ni" \o p
         \o " -> i" \o p \o "\n"

FileItems(p, i1, i2) ==
    << IncludeOf(i1),
       "#nodeclass\nn" \o p \o ":: c\n",
       IncludeOf(i2),
       "m" \o p \o ":: d\n",
       "#linkclass\nn" \o p \o ".c -> m" \o p \o ".d\n",
       Topology(p) >>

IncludeGraphs ==
    { [A |-> FileItems("A", a1, a2), B |-> FileItems("B", b1, b2),
       C |-> FileItems("C", c1, "")] :
      a1 \in Slots, a2 \in Slots, b1 \in Slots, b2 \in Slots, c1 \in Slots }

InitInc ==
    /\ build \in Builds
    /\ status = "idle"
    /\ result = NoResult
    /\ \E g \in IncludeGraphs :
          /\ items = g.A
          /\ files = ("A" :> Join(g.A) @@ "B" :> Join(g.B) @@ "C" :> Join(g.C))
    /\ options \in {[fileResolver |-> TRUE, filePath |-> Null],
                    [fileResolver |-> TRUE, filePath |-> "A"]}
    /\ InitParser

SpecInc == InitInc /\ [][Next]_vars

\* the loop of parseContent spins while it can; nothing else is scheduled
SpecFair == Init /\ [][Next]_vars /\ WF_vars(Next)

(***************************************************************************)
(* Layouts of small graphs: entities a, b, c in several declaration        *)
(* orders, as instances and NATs and as node classes, and every sequence   *)
(* of up to MaxEdges edges among the three names.                          *)
(***************************************************************************)
MaxEdges == 3

EntityNames == {"a", "b", "c"}

\* [instances, nats]: the names declared, in order; a name left out is
\* undeclared where an edge uses it
Declarations ==
    { [instances |-> << "a", "b" >>, nats |-> << "c" >>],
      [instances |-> << "b", "a" >>, nats |-> << "c" >>],
      [instances |-> << "c", "a", "b" >>, nats |-> << >>],
      [instances |-> << "a", "b" >>, nats |-> << >>] }

EdgesAmong(names) == {[from |-> f, to |-> t] : f \in names, t \in names}

Origin == [line |-> 1, column |-> 1]

\* the AST of a graph: a node class, and an instance or a NAT, per declared
\* name; a link class and a connection per edge
NodeClassNamed(n) ==
    [kind |-> "NodeClass", name |-> n,
     connectors |-> << [type |-> "sercon", name |-> "in",
                        ports |-> << [protocol |-> "TCP", port |-> 443] >>,
                        position |-> Origin],
                       [type |-> "clicon", name |-> "out", ports |-> << >>,
                        position |-> Origin] >>,
     position |-> Origin]

GraphAST(d, edges) ==
    [includes |-> << >>,
     nodeClasses |-> [i \in 1..Len(d.instances \o d.nats) |->
                         NodeClassNamed((d.instances \o d.nats)[i])],
     linkClasses |-> [i \in 1..Len(edges) |->
                         [kind |-> "LinkClass",
                          from |-> [nodeClass |-> edges[i].from, connector |-> "out"],
                          to |-> [nodeClass |-> edges[i].to, connector |-> "in"],
                          position |-> Origin]],
     instances |-> [i \in 1..Len(d.instances) |->
                       [kind |-> "Instance", nodeClass |-> d.instances[i],
                        instances |-> << [name |-> d.instances[i], ip |-> Null] >>,
                        position |-> Origin]],
     nats |-> [i \in 1..Len(d.nats) |->
                  [kind |-> "NAT", name |-> d.nats[i],
                   externalIp |-> "203.0.113.10", internalIp |-> "10.0.0.1",
                   position |-> Origin]],
     connections |-> [i \in 1..Len(edges) |->
                         [kind |-> "Connection", from |-> edges[i].from,
                          to |-> edges[i].to, position |-> Origin]]]

\* a Visualizer handed an AST that a parse has returned
InitLayout ==
    /\ build = "dist"
    /\ items = << >>
    /\ files = NoFiles
    /\ options = [fileResolver |-> FALSE, filePath |-> Null]
    /\ InitParser
    /\ status = "done"
    /\ \E d \in Declarations, edges \in SeqsUpTo(EdgesAmong(EntityNames), MaxEdges) :
          result = [ok |-> TRUE, ast |-> GraphAST(d, edges)]

NextLayout == Render

SpecLayout == InitLayout /\ [][NextLayout]_vars

(***************************************************************************)
(* End to end: a text is parsed and the AST is rendered.                   *)
(***************************************************************************)
ScenarioItems ==
    << "#nodeclass\n",
       "web_server::\n    https_listener (443)\n    *mysql_connector\n",
       "mysql_server::\n    mysql_listener (3306)\n",
       "#linkclass\n",
       "web_server.mysql_connector -> mysql_server.mysql_listener\n",
       "#instances\n",
       "web_server web1\n",
       "mysql_server db1\n",
       "#connections\n",
       "web1 -> db1\n" >>

\* the scenario with its client connector, its instances and its
\* connection written in other ways
ScenarioVariants ==
    { [ScenarioItems EXCEPT ![2] = classes, ![7] = web, ![10] = connection] :
        classes \in {ScenarioItems[2],
                     "web_server::\n    https_listener (443)\n    mysql_connector\n"},
        web \in {ScenarioItems[7], "web_server web1(192.168.1.10), web2\n"},
        connection \in {ScenarioItems[10], "db1 -> web1\n",
                        "web1 -> db1\ndb1 -> web1\n"} }

InitE2E ==
    /\ build \in Builds
    /\ status = "idle"
    /\ result = NoResult
    /\ items \in ScenarioVariants
    /\ files = NoFiles
    /\ options = [fileResolver |-> FALSE, filePath |-> Null]
    /\ InitParser

NextE2E == Parse \/ TopLevelStep \/ ParseReturn \/ Render

SpecE2E == InitE2E /\ [][NextE2E]_vars

(***************************************************************************)
(* A Visualizer in use: render(ast, mode) called again, and nodes dragged  *)
(* with the pointer.  The viewport stays at its initial value, under which *)
(* screenToWorld is the identity; panning and zooming move no box.         *)
(***************************************************************************)
MaxRelayouts == 2
MaxDrags == 1
MaxRelayoutEdges == 1

\* a later render(ast, mode) call on a Visualizer that has rendered
Relayout ==
    /\ status = "done"
    /\ layout.renders >= 1
    /\ layout.renders < MaxRenders + MaxRelayouts
    /\ \E mode \in {Null, "schema", "instances"} :
          layout' = renderModel(layout, result.ast, mode)
    /\ UNCHANGED << build, files, options, fileResolver, status, tokens, pos,
                    currentSection, currentPath, includedPaths, ast, callStack,
                    resolverCalls, lastStep, items, text, result, ghost >>

Inside(box, x, y) ==
    x >= box.x /\ x =< box.x + box.width /\ y >= box.y /\ y =< box.y + box.height

\* onMouseDown: the first element of this.instances whose box holds (x, y)
HitIndex(v, x, y) ==
    LET hits == {i \in DOMAIN v.instances : Inside(v.instances[i].position, x, y)}
    IN IF hits = {} THEN 0 ELSE CHOOSE i \in hits : \A j \in hits : i =< j

\* where the pointer goes: the corners of the boxes
PointerDownAt(v) ==
    {[x |-> v.instances[i].position.x, y |-> v.instances[i].position.y] :
        i \in DOMAIN v.instances}

\* where the pointer is moved to
PointerMoveTo == {[x |-> 7, y |-> 5]}

\* onMouseDown on a node; dragOffset is (0, 0) for a box's corner
MouseDown ==
    /\ layout.phase # "none"
    /\ layout.drags < MaxDrags
    /\ \E p \in PointerDownAt(layout) :
          /\ HitIndex(layout, p.x, p.y) # 0
          /\ layout' = [layout EXCEPT
                !.draggedNode = [kind |-> "instance",
                                 index |-> HitIndex(layout, p.x, p.y)],
                !.drags = @ + 1]
    /\ UNCHANGED << build, files, options, fileResolver, status, tokens, pos,
                    currentSection, currentPath, includedPaths, ast, callStack,
                    resolverCalls, lastStep, items, text, result, ghost >>

\* onMouseMove with a dragged node: its box follows the pointer; a node
\* that is no longer in this.instances moves alone
MouseMove ==
    /\ layout.draggedNode.kind # "null"
    /\ \E p \in PointerMoveTo :
          layout' = IF layout.draggedNode.kind = "instance"
                    THEN [layout EXCEPT
                            !.instances[layout.draggedNode.index].position.x = p.x,
                            !.instances[layout.draggedNode.index].position.y = p.y]
                    ELSE layout
    /\ UNCHANGED << build, files, options, fileResolver, status, tokens, pos,
                    currentSection, currentPath, includedPaths, ast, callStack,
                    resolverCalls, lastStep, items, text, result, ghost >>

\* onMouseUp
MouseUp ==
    /\ layout.draggedNode.kind # "null"
    /\ layout' = [layout EXCEPT !.draggedNode = NoDrag]
    /\ UNCHANGED << build, files, options, fileResolver, status, tokens, pos,
                    currentSection, currentPath, includedPaths, ast, callStack,
                    resolverCalls, lastStep, items, text, result, ghost >>

InitRelayout ==
    /\ build = "dist"
    /\ items = << >>
    /\ files = NoFiles
    /\ options = [fileResolver |-> FALSE, filePath |-> Null]
    /\ InitParser
    /\ status = "done"
    /\ \E d \in Declarations,
          edges \in SeqsUpTo(EdgesAmong(EntityNames), MaxRelayoutEdges) :
          result = [ok |-> TRUE, ast |-> GraphAST(d, edges)]

NextRelayout == Render \/ Relayout \/ MouseDown \/ MouseMove \/ MouseUp

SpecRelayout == InitRelayout /\ [][NextRelayout]_vars

(***************************************************************************)
(* The lexer alone: new Lexer(text).tokenize() on texts joined from up to  *)
(* MaxPieces pieces.                                                       *)
(***************************************************************************)
MaxPieces == 3

LexPieces == {"#nodeclass", "#NATs", "#x", "#", "#constructor", "\"", "s",
              ":", "-", ">", "\n", " ", "$", "@", "7"}

\* new Lexer(text).tokenize(): the token list returned, or the error raised
Tokenize ==
    /\ status = "idle"
    /\ \E lexed \in {tokenize(build, text)} :
          /\ result' = lexed
          /\ tokens' = IF lexed.ok THEN lexed.tokens ELSE << >>
          /\ status' = IF lexed.ok THEN "lexed" ELSE "error"
    /\ lastStep' = [op |-> "tokenize"]
    /\ UNCHANGED << build, files, options, fileResolver, pos, currentSection,
                    currentPath, includedPaths, ast, callStack, resolverCalls,
                    items, text, layout, ghost >>

InitLex ==
    /\ build \in Builds
    /\ status = "idle"
    /\ result = NoResult
    /\ items \in SeqsUpTo(LexPieces, MaxPieces)
    /\ files = NoFiles
    /\ options = [fileResolver |-> FALSE, filePath |-> Null]
    /\ InitParser

NextLex == Tokenize

SpecLex == InitLex /\ [][NextLex]_vars

(***************************************************************************)
(* Port lists: a node class with one connector whose parenthesized list    *)
(* holds up to MaxPorts port specs.                                        *)
(***************************************************************************)
MaxPorts == 3

PortTexts == {"80", "443", "8000-8080", "UDP(53)", "udp(9 - 5)", "9-5"}

\* s[1], sep, s[2], sep, ...
RECURSIVE Separated(_, _)
Separated(s, sep) ==
    IF Len(s) =< 1 THEN s
    ELSE << Head(s), sep >> \o Separated(Tail(s), sep)

InitPorts ==
    /\ build \in Builds
    /\ status = "idle"
    /\ result = NoResult
    /\ \E specs \in SeqsUpTo(PortTexts, MaxPorts) :
          items = << "#nodeclass\n", "n:: c (" >> \o Separated(specs, ", ")
                  \o << ")\n" >>
    /\ files = NoFiles
    /\ options = [fileResolver |-> FALSE, filePath |-> Null]
    /\ InitParser

NextPorts == Parse \/ TopLevelStep \/ ParseReturn

SpecPorts == InitPorts /\ [][NextPorts]_vars

(***************************************************************************)
(* The package's entry point, parse of index: the include graphs of        *)
(* InitInc, parsed through it with or without a resolver in the options.   *)
(***************************************************************************)
\* `options` undefined: options?.fileResolver and options?.filePath
NoOptions == [fileResolver |-> FALSE, filePath |-> Null]

\* the second argument of parser.parse in index's parse: src/index.ts has
\* parse(input) calling parser.parse(input); the compiled index has
\* parse(input, options) calling parser.parse(input, options)
index_options(b, opts) == IF b = "src" THEN NoOptions ELSE opts

\* export function parse: const parser = new Parser(); return parser.parse(…)
index_parse ==
    /\ status = "idle"
    /\ text' = text
    /\ ghost' = ghost
    /\ BeginWith(text, index_options(build, options))

InitEntry ==
    /\ build \in Builds
    /\ status = "idle"
    /\ result = NoResult
    /\ \E g \in IncludeGraphs :
          /\ items = g.A
          /\ files = ("A" :> Join(g.A) @@ "B" :> Join(g.B) @@ "C" :> Join(g.C))
    /\ options \in {NoOptions,
                    [fileResolver |-> TRUE, filePath |-> Null],
                    [fileResolver |-> TRUE, filePath |-> "A"]}
    /\ InitParser

NextEntry == index_parse \/ TopLevelStep \/ IncludeReturn \/ ParseReturn

SpecEntry == InitEntry /\ [][NextEntry]_vars

(***************************************************************************)
(* Parses without a resolver: texts of up to MaxDirectiveItems items in    *)
(* which an include directive may stand before, between and inside the     *)
(* constructs of two sections.                                             *)
(***************************************************************************)
MaxDirectiveItems == 4

DirectiveItems == {"#nodeclass\n", "#instances\n", "web:: listen (443)\n",
                   "db\n", "web w1\n", "include \"A\"\n"}

InitNoResolver ==
    /\ build \in Builds
    /\ status = "idle"
    /\ result = NoResult
    /\ items \in SeqsUpTo(DirectiveItems, MaxDirectiveItems)
    /\ files = NoFiles
    /\ options = NoOptions
    /\ InitParser

NextNoResolver == Parse \/ TopLevelStep \/ ParseReturn

SpecNoResolver == InitNoResolver /\ [][NextNoResolver]_vars

(***************************************************************************)
(* One Parser used for up to MaxCalls calls of parse, each with a text and *)
(* options of its own; a call may raise inside an included file.           *)
(***************************************************************************)
MaxCalls == 3

\* texts that parse through the include cycle A <-> B, raise in the second
\* line of the included file E, or raise in the lexer
ReuseTexts == {"include \"A\"\n#nodeclass\nweb:: listen (443)\n",
               "#linkclass\ninclude \"B\"\ninclude \"E\"\n",
               "#nodeclass\ninclude \"B\"\nweb:: listen\n",
               "include \"A\"\n$"}

ReuseOptions == {NoOptions,
                 [fileResolver |-> TRUE, filePath |-> Null],
                 [fileResolver |-> TRUE, filePath |-> "A"]}

\* parser.parse(input, opts) on a Parser that has returned or raised before
ParseAgain ==
    /\ status \in {"done", "error"}
    /\ Len(ghost.calls) < MaxCalls - 1
    /\ \E input \in ReuseTexts, opts \in ReuseOptions :
          /\ text' = input
          /\ items' = << input >>
          /\ options' = opts
          /\ ghost' = [FreshGhost(build) EXCEPT
                         !.calls = Append(ghost.calls,
                                          [text |-> text, options |-> options,
                                           result |-> result])]
          /\ BeginFields(input, opts)
    /\ UNCHANGED << build, files, layout >>

InitReuse ==
    /\ build \in Builds
    /\ status = "idle"
    /\ result = NoResult
    /\ \E input \in ReuseTexts : items = << input >>
    /\ files = LibraryFiles
    /\ options \in ReuseOptions
    /\ InitParser

NextReuse == Parse \/ TopLevelStep \/ IncludeReturn \/ ParseReturn \/ ParseAgain

SpecReuse == InitReuse /\ [][NextReuse]_vars

(***************************************************************************)
(* Included files whose first construct stands before their first section  *)
(* marker, included under the sections of the including text.              *)
(***************************************************************************)
MaxUnitItems == 3

UnitItems == {"#nodeclass\n", "#instances\n", "web:: listen\n", "web w1\n",
              "include \"K\"\n", "include \"L\"\n", "include \"N\"\n"}

\* K has its marker first; L and N start with a construct, N after a
\* directive of its own
UnitFiles ==
    "K" :> "#nodeclass\nk:: p\n"
    @@ "L" :> "libA:: p\n#nodeclass\nlibB:: q\n"
    @@ "N" :> "include \"K\"\nn w2\n"

InitUnits ==
    /\ build \in Builds
    /\ status = "idle"
    /\ result = NoResult
    /\ items \in SeqsUpTo(UnitItems, MaxUnitItems)
    /\ files = UnitFiles
    /\ options = [fileResolver |-> TRUE, filePath |-> Null]
    /\ InitParser

NextUnits == Parse \/ TopLevelStep \/ IncludeReturn \/ ParseReturn

SpecUnits == InitUnits /\ [][NextUnits]_vars

(***************************************************************************)
(* Layouts with rows to order: four entities in several declaration        *)
(* orders and every sequence of up to MaxRowEdges edges among them.        *)
(***************************************************************************)
MaxRowEdges == 3

RowNames == {"a", "b", "c", "d"}

RowDeclarations ==
    { [instances |-> << "a", "b", "c", "d" >>, nats |-> << >>],
      [instances |-> << "d", "c", "b", "a" >>, nats |-> << >>],
      [instances |-> << "b", "d", "a" >>, nats |-> << "c" >>] }

RowEdges == {e \in EdgesAmong(RowNames) : e.from # e.to}

\* five entities, c and d on a cycle that the layout enters at c
CycleDeclaration == [instances |-> << "c", "e", "d", "a", "b" >>, nats |-> << >>]

CycleEdges == {[from |-> "b", to |-> "d"], [from |-> "c", to |-> "d"],
               [from |-> "d", to |-> "c"], [from |-> "b", to |-> "e"],
               [from |-> "a", to |-> "e"], [from |-> "a", to |-> "d"]}

InitRows ==
    /\ build = "dist"
    /\ items = << >>
    /\ files = NoFiles
    /\ options = NoOptions
    /\ InitParser
    /\ status = "done"
    /\ \/ \E d \in RowDeclarations, edges \in SeqsUpTo(RowEdges, MaxRowEdges) :
             result = [ok |-> TRUE, ast |-> GraphAST(d, edges)]
       \/ \E edges \in SeqsUpTo(CycleEdges, MaxRowEdges + 1) :
             result = [ok |-> TRUE, ast |-> GraphAST(CycleDeclaration, edges)]

NextRows == Render

SpecRows == InitRows /\ [][NextRows]_vars

(***************************************************************************)
(* Box heights: two entities a and b in one layer, their node classes      *)
(* with up to MaxConnectors server and client connectors.                  *)
(***************************************************************************)
MaxConnectors == 6

ConnectorsOfType(type, n) ==
    [i \in 1..n |-> [type |-> type, name |-> "k", ports |-> << >>,
                     position |-> Origin]]

\* a node class with s server connectors and c client connectors
NodeClassWith(n, s, c) ==
    [kind |-> "NodeClass", name |-> n,
     connectors |-> ConnectorsOfType("sercon", s) \o ConnectorsOfType("clicon", c),
     position |-> Origin]

InitHeights ==
    /\ build = "dist"
    /\ items = << >>
    /\ files = NoFiles
    /\ options = NoOptions
    /\ InitParser
    /\ status = "done"
    /\ \E d \in {[instances |-> << "a", "b" >>, nats |-> << >>],
                 [instances |-> << "b", "a" >>, nats |-> << >>]},
          sa \in 0..MaxConnectors, ca \in 0..MaxConnectors, sb \in {0, 1} :
          result = [ok |-> TRUE,
                    ast |-> [GraphAST(d, << >>) EXCEPT
                               !.nodeClasses = << NodeClassWith("a", sa, ca),
                                                  NodeClassWith("b", sb, 0) >>]]

NextHeights == Render

SpecHeights == InitHeights /\ [][NextHeights]_vars

(***************************************************************************)
(* Properties of the parser.                                               *)
(***************************************************************************)
Terminated == status \in {"done", "error"}

\* C1: every iteration of parseContent's loop that raises no error leaves
\* the parser at least one token further, whatever token it met (a stray
\* token is stepped over).
C1_IterationConsumesToken ==
    (lastStep.op = "parseTopLevel" /\ lastStep.node # "error")
        => lastStep.consumed >= 1

FirstTokenOf(toks, node) == CHOOSE t \in Range(toks) : PositionOf(t) = node.position

\* C2: in every node class parsed, a connector is a client exactly when its
\* declaration starts with the '*' token and a server otherwise, whether or
\* not it has a port list.
C2_RoleFromStarOnly ==
    (lastStep.op = "parseTopLevel" /\ lastStep.node = "NodeClass") =>
        \A i \in DOMAIN lastStep.made.connectors :
            LET c == lastStep.made.connectors[i]
            IN /\ c.type \in {"clicon", "sercon"}
               /\ (c.type = "clicon") <=> (FirstTokenOf(tokens, c).type = "STAR")

IncludeDepthBounded ==
    Len(callStack) <= Cardinality({resolverCalls[i].path : i \in DOMAIN resolverCalls})

\* C4: once parse has entered an included file, it terminates (returns or
\* raises), whatever the files hold.
C4_ParseWithIncludesTerminates ==
    (lastStep.op = "parseTopLevel" /\ lastStep.included = "entered") ~> Terminated

\* an include directive naming a path already visited (a resolver being set)
\* changes nothing but the includes list and the position
C5_RevisitStep ==
    (/\ status = "parsing"
     /\ fileResolver
     /\ lastStep'.op = "parseTopLevel"
     /\ lastStep'.node = "Include"
     /\ lastStep'.made.path \in includedPaths)
    => /\ ast'.nodeClasses = ast.nodeClasses
       /\ ast'.linkClasses = ast.linkClasses
       /\ ast'.includes = Append(ast.includes, lastStep'.made)
       /\ callStack' = callStack
       /\ resolverCalls' = resolverCalls
       /\ includedPaths' = includedPaths
       /\ currentSection' = currentSection
       /\ tokens' = tokens
       /\ pos' = pos + 2

\* the text parsed again with such a directive blanked yields the same classes
C5_SameAsRemoved ==
    ghost.replay.on =>
        /\ status # "error"
        /\ status = "done" =>
              /\ result.ast.nodeClasses = ghost.replay.first.nodeClasses
              /\ result.ast.linkClasses = ghost.replay.first.linkClasses

\* C5: an include directive naming an already visited path adds no node
\* class and no link class, and the result's classes are those of the same
\* text without the directive.
C5_RevisitAddsNothing == [][C5_RevisitStep]_vars /\ []C5_SameAsRemoved

C5_Witness ==
    /\ ghost.replay.on
    /\ status = "done"
    /\ Len(result.ast.nodeClasses) >= 4
    /\ Len(result.ast.includes) = 1

\* what the loop of parseContent makes of a token stream by itself, include
\* directives having no effect
RECURSIVE OwnNodes(_, _, _, _, _)
OwnContinue(b, toks, p, acc, r) ==
    IF ~r.ok \/ r.pos = p THEN acc
    ELSE OwnNodes(b, toks, r.pos, r.section, PushNode(acc, r.node))

OwnNodes(b, toks, p, section, acc) ==
    IF isAtEnd(toks, p) THEN acc
    ELSE OwnContinue(b, toks, p, acc, parseTopLevel(b, toks, p, section))

DeclaredIn(b, input) == OwnNodes(b, tokenize(b, input).tokens, 0, Null, EmptyAST(b))

\* C6: the instances, NAT entries and connections of the result are exactly
\* those declared in the text handed to parse, in order; none comes from an
\* included file.
C6_TopologyIsTopLevelOnly ==
    status = "done" =>
        LET own == DeclaredIn(build, text)
        IN /\ result.ast.instances = own.instances
           /\ result.ast.connections = own.connections
           /\ build = "dist" => result.ast.nats = own.nats

C6_Witness ==
    /\ status = "done"
    /\ ~ghost.replay.on
    /\ Len(resolverCalls) = 3
    /\ Len(result.ast.instances) = 1
    /\ Len(result.ast.connections) = 1
    /\ Len(result.ast.nodeClasses) = 8

MarkerKind ==
    [SECTION_NODECLASS |-> "nodeclass", SECTION_LINKCLASS |-> "linkclass",
     SECTION_INSTANCES |-> "instances", SECTION_NATS |-> "nats",
     SECTION_CONNECTIONS |-> "connections"]

ConstructKind ==
    [nodeclass |-> "NodeClass", linkclass |-> "LinkClass",
     instances |-> "Instance", nats |-> "NAT", connections |-> "Connection"]

\* the kind of the last section marker among the first n tokens
RECURSIVE LastMarker(_, _)
LastMarker(toks, n) ==
    IF n = 0 THEN Null
    ELSE IF toks[n].type \in DOMAIN MarkerKind THEN MarkerKind[toks[n].type]
    ELSE LastMarker(toks, n - 1)

C7_SectionState ==
    /\ status = "parsing" => currentSection = LastMarker(tokens, pos)
    /\ (lastStep.op = "parseTopLevel" /\ lastStep.node \in Range(ConstructKind))
          => /\ lastStep.section \in DOMAIN ConstructKind
             /\ ConstructKind[lastStep.section] = lastStep.node

C7_MarkerStep ==
    (/\ status = "parsing"
     /\ ~isAtEnd(tokens, pos)
     /\ Parser_peek(tokens, pos).type \in DOMAIN MarkerKind)
    => /\ ast' = ast
       /\ callStack' = callStack
       /\ tokens' = tokens

\* C7: while a text is parsed, the current section is the kind of the last
\* section marker met in that text (none before the first); a construct is
\* made only under the section of its kind; a marker adds nothing to the AST.
C7_SectionTracksLastMarker == []C7_SectionState /\ [][C7_MarkerStep]_vars

C7_Witness ==
    /\ lastStep.op = "includeReturn"
    /\ lastStep.section = "instances"
    /\ currentSection = "nodeclass"
    /\ status = "parsing"

\* C8: '#NATs' in any letter case lexes as the NAT section marker, '@' is a
\* token, and under that section `@ident (IP, IP)` becomes a NAT record
\* appended to the AST's nats.
C8_NATsSectionParsed ==
    /\ \A h \in {"#NATs", "#nats", "#NATS", "#nAtS"} :
          LET lexed == tokenize(build, h)
          IN lexed.ok /\ TypesOf(lexed.tokens) = << "SECTION_NATS", "EOF" >>
    /\ (items = << "#NATs\n", "@nat (203.0.113.10, 10.0.0.1)\n" >> /\ Terminated)
          => /\ status = "done"
             /\ result.ast.nats =
                   << [kind |-> "NAT", name |-> "nat",
                       externalIp |-> "203.0.113.10", internalIp |-> "10.0.0.1",
                       position |-> [line |-> 2, column |-> 1]] >>

(***************************************************************************)
(* Properties of the layout.                                               *)
(***************************************************************************)
\* C9: the end-to-end scenario parses without error to 2 node classes,
\* 1 link class, 2 instance groups of 1 entry, 0 NATs and 1 connection, and
\* its instances view puts the web_server instance in layer 0 and the
\* mysql_server instance in layer 1.
C9_EndToEndScenario ==
    items = ScenarioItems =>
        /\ status # "error"
        /\ status = "done" =>
              /\ Len(result.ast.nodeClasses) = 2
              /\ Len(result.ast.linkClasses) = 1
              /\ Len(result.ast.instances) = 2
              /\ \A i \in 1..2 : Len(result.ast.instances[i].instances) = 1
              /\ "nats" \in DOMAIN result.ast
              /\ Len(result.ast.nats) = 0
              /\ Len(result.ast.connections) = 1
              /\ result.ast.connections[1].from = "web1"
              /\ result.ast.connections[1].to = "db1"
        /\ (layout.phase # "none" /\ layout.viewMode = "instances") =>
              /\ layout.phase = "rendered"
              /\ "web1" \in DOMAIN layout.layers /\ layout.layers["web1"] = 0
              /\ "db1" \in DOMAIN layout.layers /\ layout.layers["db1"] = 1

\* the graph a view lays out: its entities and its edges
ViewEntities(a, viewMode) ==
    IF viewMode = "schema" THEN Range(NamesOf(a.nodeClasses))
    ELSE Range(NamesOf(Flatten(a.instances))) \cup Range(NamesOf(a.nats))

ViewEdges(a, viewMode) ==
    IF viewMode = "schema"
    THEN {[from |-> a.linkClasses[i].from.nodeClass,
           to |-> a.linkClasses[i].to.nodeClass] : i \in DOMAIN a.linkClasses}
    ELSE {[from |-> a.connections[i].from, to |-> a.connections[i].to] :
             i \in DOMAIN a.connections}

Preds(E, n) == {e.from : e \in {x \in E : x.to = n}}
Succs(E, n) == {e.to : e \in {x \in E : x.from = n}}

\* the names reached from n by at most `steps` edges, one at least
RECURSIVE ReachedFrom(_, _, _)
ReachedFrom(E, n, steps) ==
    IF steps = 0 THEN {}
    ELSE Succs(E, n) \cup UNION {ReachedFrom(E, m, steps - 1) : m \in Succs(E, n)}

Acyclic(V, E) == \A n \in V : n \notin ReachedFrom(E, n, Cardinality(V))

\* the number of edges of the longest path that ends in n (acyclic graphs)
RECURSIVE LongestPathTo(_, _)
LongestPathTo(E, n) ==
    IF Preds(E, n) = {} THEN 0
    ELSE 1 + CHOOSE m \in {LongestPathTo(E, p) : p \in Preds(E, n)} :
                 \A k \in {LongestPathTo(E, p) : p \in Preds(E, n)} : m >= k

Unbranched(V, E) ==
    \A n \in V : Cardinality(Preds(E, n)) =< 1 /\ Cardinality(Succs(E, n)) =< 1

\* C10: after a layout of an acyclic graph whose edges join declared
\* entities, an entity without incoming edge has layer 0 and any other has
\* 1 + the greatest layer of its predecessors, which is the length of the
\* longest path to it; so every edge goes to a greater layer, and to the
\* next layer where the graph is one unbranched chain.
C10_LongestPathLayers ==
    LET V == ViewEntities(result.ast, layout.viewMode)
        E == ViewEdges(result.ast, layout.viewMode)
        layer == layout.layers
    IN (/\ layout.phase = "rendered"
        /\ \A e \in E : e.from \in V /\ e.to \in V
        /\ Acyclic(V, E))
       => /\ V \subseteq DOMAIN layer
          /\ \A n \in V :
                /\ Preds(E, n) = {} => layer[n] = 0
                /\ Preds(E, n) # {} =>
                      /\ \A p \in Preds(E, n) : layer[n] >= layer[p] + 1
                      /\ \E p \in Preds(E, n) : layer[n] = layer[p] + 1
                /\ layer[n] = LongestPathTo(E, n)
          /\ \A e \in E : layer[e.to] > layer[e.from]
          /\ Unbranched(V, E) => \A e \in E : layer[e.to] = layer[e.from] + 1

C10_Witness ==
    /\ layout.phase = "rendered"
    /\ layout.viewMode = "instances"
    /\ ViewEdges(result.ast, "instances") =
          {[from |-> "a", to |-> "b"], [from |-> "b", to |-> "c"],
           [from |-> "a", to |-> "c"]}
    /\ {"a", "b", "c"} \subseteq DOMAIN layout.layers
    /\ layout.layers["c"] = 2
    /\ layout.layers["a"] = 0

\* the entities of the rendered view, in the order the layout visits them
ViewNames(a, viewMode) ==
    IF viewMode = "schema" THEN NamesOf(a.nodeClasses)
    ELSE NamesOf(Flatten(a.instances)) \o NamesOf(a.nats)

NoDuplicates(s) == \A i, j \in DOMAIN s : i # j => s[i] # s[j]

\* C11: on every graph, cyclic or not, the layer assignment ends; an entity
\* enters the in-progress state at most once; a back-edge to an entity in
\* progress counts 0 in the maximum (an entity whose only predecessor is
\* itself gets layer 1, and a layer is 1 + 0 or 1 + a predecessor's layer);
\* every entity ends with a layer between 0 and the number of entities.
C11_CyclesTerminateBounded ==
    LET names == ViewNames(result.ast, layout.viewMode)
        V == Range(names)
        E == ViewEdges(result.ast, layout.viewMode)
        into(n) == IF n \in V THEN Preds(E, n) ELSE {}
        layer == layout.layers
    IN layout.phase = "rendered" =>
          /\ NoDuplicates(layout.entered)
          /\ Range(layout.entered) = DOMAIN layer
          /\ V \subseteq DOMAIN layer
          /\ \A n \in DOMAIN layer :
                /\ layer[n] \in 0..Len(names)
                /\ into(n) = {} => layer[n] = 0
                /\ into(n) # {} =>
                      layer[n] \in {1} \cup {layer[p] + 1 : p \in into(n)}
                /\ into(n) = {n} => layer[n] = 1

C11_Witness ==
    /\ layout.phase = "rendered"
    /\ layout.viewMode = "instances"
    /\ ViewEdges(result.ast, "instances") =
          {[from |-> "a", to |-> "b"], [from |-> "b", to |-> "a"],
           [from |-> "c", to |-> "c"]}
    /\ layout.entered = << "a", "b", "c" >>
    /\ layout.layers["a"] = 2
    /\ layout.layers["b"] = 1
    /\ layout.layers["c"] = 1

\* C12: in the instances view with pairwise distinct entity names, every
\* instance entry and every NAT has a row index in its layer, and no two
\* entities share a (layer, row) cell.
C12_NoSharedGridCell ==
    LET names == ViewNames(result.ast, "instances")
        row(n) == Get(layout.rowPositions, n, 0)
    IN (/\ layout.phase = "rendered"
        /\ layout.viewMode = "instances"
        /\ NoDuplicates(names))
       => /\ Range(names) \subseteq DOMAIN layout.layers
          /\ Range(names) \subseteq DOMAIN layout.rowPositions
          /\ \A n, m \in Range(names) :
                (n # m /\ layout.layers[n] = layout.layers[m]) => row(n) # row(m)

\* what a layout gives every entity of the render model: layer, row, and
\* the box of each positioned record
BoxesOf(list) == [i \in DOMAIN list |-> [name |-> list[i].name,
                                          position |-> list[i].position]]

Positioned(v) ==
    [layers |-> v.layers, rowPositions |-> v.rowPositions,
     instances |-> BoxesOf(v.instances), nats |-> BoxesOf(v.nats)]

FirstLayout(viewMode) == renderModel(NoLayout, result.ast, viewMode)

\* C13: a layout of an unchanged AST and view gives every entity the layer,
\* row, x, y and box size that the first layout of that AST and view gives,
\* whatever layouts and pointer events came before, and leaves the AST
\* unchanged.
C13_LayoutDeterministic ==
    [][layout'.renders > layout.renders =>
          /\ result' = result
          /\ Positioned(layout') = Positioned(FirstLayout(layout'.viewMode))]_vars

\* the entities of the view that is laid out (node classes in the schema
\* view; instance entries and NATs in the instances view) do get the boxes
\* of the first layout
RelayoutOwnEntitiesSame ==
    [][layout'.renders > layout.renders =>
          /\ layout'.layers = FirstLayout(layout'.viewMode).layers
          /\ layout'.rowPositions = FirstLayout(layout'.viewMode).rowPositions
          /\ BoxesOf(layout'.instances) = BoxesOf(FirstLayout(layout'.viewMode).instances)
          /\ layout'.viewMode = "instances" =>
                BoxesOf(layout'.nats) = BoxesOf(FirstLayout("instances").nats)]_vars

\* C14: a failed grammar expectation, in the top-level text or in an
\* included file, ends the parse with an error that carries the expectation
\* message, the kind of the token found and that token's line and column;
\* an ended parse that raised has no AST, partial or not.
C14_GrammarErrorNoAST ==
    /\ status = "error" => (~result.ok /\ "ast" \notin DOMAIN result)
    /\ (lastStep.op = "parseTopLevel" /\ lastStep.node = "error") =>
          /\ status = "error"
          /\ result.kind = "Grammar"
          /\ Len(result.message) > 0
          /\ result.got = Parser_peek(tokens, pos).type
          /\ result.got = lastStep.token \/ lastStep.consumed > 0
          /\ result.line = Parser_peek(tokens, pos).line
          /\ result.column = Parser_peek(tokens, pos).column
    /\ (status = "error" /\ result.kind = "Grammar") => lastStep.node = "error"

\* the expectation fails in the second line of the included file E
C14_Witness ==
    /\ status = "error"
    /\ result.kind = "Grammar"
    /\ lastStep.depth = 1
    /\ currentPath = "E"
    /\ result.got = "ARROW"
    /\ result.line = 2
    /\ result.column = 8

(***************************************************************************)
(* Properties of the lexer, against a reading of the text character by     *)
(* character that builds no token.                                         *)
(***************************************************************************)
CharAt(input, i) == SubSeq(input, i, i)

\* the first index from i on whose character is no identifier character
RECURSIVE IdentEnd(_, _)
IdentEnd(input, i) ==
    IF i =< Len(input) /\ IsIdentChar(CharAt(input, i))
    THEN IdentEnd(input, i + 1) ELSE i

\* the first index from i on that holds the character c; Len + 1 if none
RECURSIVE NextIndexOf(_, _, _)
NextIndexOf(input, c, i) ==
    IF i > Len(input) \/ CharAt(input, i) = c THEN i
    ELSE NextIndexOf(input, c, i + 1)

\* a '#' at index i opens a section header when the identifier after it
\* is, in lower case, a section keyword of the build
IsHeaderAt(b, input, i) ==
    toLowerCase(SubSeq(input, i + 1, IdentEnd(input, i + 1) - 1))
        \in DOMAIN SECTION_KEYWORDS(b)

\* the index of the first character, from i on and outside comments and
\* strings, at which no token starts; 0 if there is none
RECURSIVE Offending(_, _, _)
Offending(b, input, i) ==
    LET c == CharAt(input, i)
        next == CharAt(input, i + 1)
    IN IF i > Len(input) THEN 0
       ELSE IF c = "#" THEN
            IF IsHeaderAt(b, input, i)
            THEN Offending(b, input, IdentEnd(input, i + 1))
            ELSE Offending(b, input, NextIndexOf(input, "\n", i + 1))
       ELSE IF c = "\"" THEN
            IF NextIndexOf(input, "\"", i + 1) > Len(input) THEN i
            ELSE Offending(b, input, NextIndexOf(input, "\"", i + 1) + 1)
       ELSE IF c \in {" ", "\t", "\n", "\r", "(", ")", ",", "."}
               \/ IsIdentChar(c) THEN Offending(b, input, i + 1)
       ELSE IF c = ":" THEN
            IF i < Len(input) /\ next = ":" THEN Offending(b, input, i + 2) ELSE i
       ELSE IF c = "-" THEN
            IF i < Len(input) /\ next = ">" THEN Offending(b, input, i + 2)
            ELSE Offending(b, input, i + 1)
       ELSE IF c \in {"*", "@"} /\ b = "dist" THEN Offending(b, input, i + 1)
       ELSE i

\* line and column of the character at index i
LineOf(input, i) ==
    1 + Cardinality({j \in 1..(i - 1) : CharAt(input, j) = "\n"})
ColumnOf(input, i) ==
    LET breaks == {j \in 1..(i - 1) : CharAt(input, j) = "\n"}
        last == IF breaks = {} THEN 0
                ELSE CHOOSE j \in breaks : \A k \in breaks : j >= k
    IN i - last

\* C15: tokenize raises exactly when the text holds, outside comments and
\* strings, an unclosed string, a ':' without a second ':' or a character
\* that starts no token, and the error has the line and column of that
\* place; on any other text it returns the token list.
C15_LexicalErrorExactly ==
    status # "idle" =>
       LET at == Offending(build, text, 1)
       IN /\ (status = "error") <=> (at # 0)
          /\ status = "error" =>
                /\ "tokens" \notin DOMAIN result
                /\ result.line = LineOf(text, at)
                /\ result.column = ColumnOf(text, at)
                /\ (result.kind = "Unterminated string") <=> (CharAt(text, at) = "\"")

\* the five section keywords
FiveSectionKeywords == {"nodeclass", "linkclass", "instances", "nats", "connections"}

SectionTokenOf ==
    [nodeclass |-> "SECTION_NODECLASS", linkclass |-> "SECTION_LINKCLASS",
     instances |-> "SECTION_INSTANCES", nats |-> "SECTION_NATS",
     connections |-> "SECTION_CONNECTIONS"]

\* the text with its first n characters blanked
BlankedTo(input, n) == Blank(SubSeq(input, 1, n)) \o SubSeq(input, n + 1, Len(input))

\* C16: for a text that starts with '#': when the identifier right after
\* the '#' is a section keyword in any letter case, the first token is that
\* section's marker with the identifier as written for value, and the rest
\* of the line is tokenized as if the header were blank; otherwise the text
\* up to the next newline gives no token and is discarded, the newline and
\* what follows being tokenized as usual.
C16_HashHeaderOrComment ==
    (status # "idle" /\ Len(text) > 0 /\ CharAt(text, 1) = "#") =>
       LET e == IdentEnd(text, 2)
           identifier == SubSeq(text, 2, e - 1)
           key == toLowerCase(identifier)
           rest == tokenize(build, BlankedTo(text, e - 1))
           after == tokenize(build, BlankedTo(text, NextIndexOf(text, "\n", 1) - 1))
       IN IF key \in FiveSectionKeywords
          THEN /\ result.ok = rest.ok
               /\ result.ok =>
                     tokens = << [type |-> SectionTokenOf[key], value |-> identifier,
                                  line |-> 1, column |-> 1] >> \o rest.tokens
               /\ ~result.ok => result = rest
          ELSE result = after

\* C17: a token list that tokenize returns holds one EOF token, in last
\* place, whose line is 1 + the number of newlines of the text and whose
\* column is 1 + the number of characters after the last newline.
C17_SingleFinalEOF ==
    status = "lexed" =>
        /\ Len(tokens) >= 1
        /\ {i \in DOMAIN tokens : tokens[i].type = "EOF"} = {Len(tokens)}
        /\ tokens[Len(tokens)].value = ""
        /\ tokens[Len(tokens)].line = LineOf(text, Len(text) + 1)
        /\ tokens[Len(tokens)].column = ColumnOf(text, Len(text) + 1)

C17_Witness ==
    /\ status = "lexed"
    /\ text = "\n\ns"
    /\ Len(tokens) = 2
    /\ tokens[2] = [type |-> "EOF", value |-> "", line |-> 3, column |-> 2]

(***************************************************************************)
(* Properties of the parser's results.                                     *)
(***************************************************************************)
\* what each port text stands for
PortSpecOf ==
    [t \in PortTexts |->
        CASE t = "80" -> [protocol |-> "TCP", port |-> 80]
          [] t = "443" -> [protocol |-> "TCP", port |-> 443]
          [] t = "8000-8080" ->
                [protocol |-> "TCP", portRange |-> [start |-> 8000, end |-> 8080]]
          [] t = "UDP(53)" -> [protocol |-> "UDP", port |-> 53]
          [] t = "udp(9 - 5)" ->
                [protocol |-> "UDP", portRange |-> [start |-> 9, end |-> 5]]
          [] t = "9-5" ->
                [protocol |-> "TCP", portRange |-> [start |-> 9, end |-> 5]]]

WrittenPorts == SelectSeq(items, LAMBDA t : t \in PortTexts)

\* C18: a list of k port specs parses to k PortSpecs in source order; each
\* is UDP exactly when written in a UDP(...) wrapper and TCP otherwise, and
\* has either port (a number alone) or portRange (number '-' number, taken
\* as written, in any order), never both.
C18_PortSpecsAsWritten ==
    (status = "done" /\ Len(items) >= 3 /\ items[2] = "n:: c (") =>
        LET ports == result.ast.nodeClasses[1].connectors[1].ports
        IN /\ Len(result.ast.nodeClasses) = 1
           /\ Len(result.ast.nodeClasses[1].connectors) = 1
           /\ ports = [i \in 1..Len(WrittenPorts) |-> PortSpecOf[WrittenPorts[i]]]
           /\ \A i \in DOMAIN ports :
                 /\ ports[i].protocol \in {"TCP", "UDP"}
                 /\ ("port" \in DOMAIN ports[i]) # ("portRange" \in DOMAIN ports[i])

C18_Witness ==
    /\ status = "done"
    /\ WrittenPorts = << "80", "443", "8000-8080" >>
    /\ result.ast.nodeClasses[1].connectors[1].ports =
          << [protocol |-> "TCP", port |-> 80], [protocol |-> "TCP", port |-> 443],
             [protocol |-> "TCP", portRange |-> [start |-> 8000, end |-> 8080]] >>

PathsOf(list) == [i \in DOMAIN list |-> list[i].path]

\* the path written in an include directive item: include "path"
DirectivePath(item) == SubSeq(item, 10, Len(item) - 2)

TopLevelDirectives ==
    LET parsed == IF ghost.replay.on
                  THEN [items EXCEPT ![ghost.replay.k] = Blank(@)]
                  ELSE items
        written == SelectSeq(parsed, IsDirective)
    IN [i \in DOMAIN written |-> DirectivePath(written[i])]

\* C19 as claimed: the returned includes hold a record for every directive
\* met during the parse, those inside included files too, in the order met.
C19_EveryDirectiveRecorded ==
    status = "done" => PathsOf(result.ast.includes) = PathsOf(ghost.directives)

\* C19: the returned includes hold, in source order, one Include record
\* for every include directive of the top-level text, skipped duplicates
\* included, and none for the directives inside included files.
C19_TopLevelDirectivesRecorded ==
    status = "done" =>
        /\ PathsOf(result.ast.includes) = TopLevelDirectives
        /\ \A i \in DOMAIN result.ast.includes : result.ast.includes[i].kind = "Include"
        /\ Len(result.ast.includes) =
              Cardinality({i \in DOMAIN ghost.directives : ghost.directives[i].depth = 0})

\* a top-level text with two directives for one path, whose file holds a
\* directive of its own
C19_Witness ==
    /\ status = "done"
    /\ PathsOf(result.ast.includes) = << "B", "B" >>
    /\ PathsOf(ghost.directives) = << "B", "C", "B" >>
    /\ Len(resolverCalls) = 2

\* the paths named by the include directives of a text, nested ones left out
NamedIn(b, input) ==
    LET own == DeclaredIn(b, input).includes
    IN {own[i].path : i \in DOMAIN own}

\* the files a parse of the text with these options enters when the
\* resolver is used: those named from the text through entered files, the
\* text's own path never being entered
RECURSIVE EnteredFrom(_, _)
EnteredFrom(seen, frontier) ==
    LET new == ((frontier \ seen) \ {options.filePath}) \cap DOMAIN files
    IN IF new = {} THEN seen
       ELSE EnteredFrom(seen \cup new,
                        UNION {NamedIn(build, files[p]) : p \in new})

IncludedFiles == EnteredFrom({}, NamedIn(build, text))

Holds(list, node) == \E i \in DOMAIN list : list[i] = node

\* right after the entry point's call the parser holds the caller's options
HandsOptions ==
    lastStep.op = "parse" =>
        /\ fileResolver = options.fileResolver
        /\ currentPath = options.filePath

\* a caller who supplied a resolver finds every included file's classes
GetsIncludedClasses ==
    (status = "done" /\ options.fileResolver) =>
        \A p \in IncludedFiles :
            LET own == DeclaredIn(build, files[p])
            IN /\ \A i \in DOMAIN own.nodeClasses :
                      Holds(result.ast.nodeClasses, own.nodeClasses[i])
               /\ \A i \in DOMAIN own.linkClasses :
                      Holds(result.ast.linkClasses, own.linkClasses[i])

\* C20: parse(text, options) of the entry point hands options.fileResolver
\* and options.filePath to the parser, and a caller who supplies a resolver
\* gets the node classes and link classes of every included file.
C20_EntryHandsOptions == HandsOptions /\ GetsIncludedClasses

\* the compiled entry point does both
CompiledEntryHandsOptions ==
    build = "dist" => (HandsOptions /\ GetsIncludedClasses)

\* through the compiled entry point, two files entered and their classes merged
CompiledEntryWitness ==
    /\ build = "dist"
    /\ status = "done"
    /\ options.fileResolver
    /\ Cardinality(IncludedFiles) = 2
    /\ Len(resolverCalls) = 2
    /\ Len(result.ast.nodeClasses) = 6

(***************************************************************************)
(* Include directives without a resolver.                                  *)
(***************************************************************************)
\* what parseContent makes of a token stream when include directives are
\* only recorded: the AST, the Error, or a loop that no longer advances
RECURSIVE AloneFrom(_, _, _, _, _)
AloneContinue(b, toks, p, acc, r) ==
    IF ~r.ok THEN [kind |-> "error", ast |-> acc]
    ELSE IF r.pos = p THEN [kind |-> "spins", ast |-> acc]
    ELSE AloneFrom(b, toks, r.pos, r.section, PushNode(acc, r.node))

AloneFrom(b, toks, p, section, acc) ==
    IF isAtEnd(toks, p) THEN [kind |-> "done", ast |-> acc]
    ELSE AloneContinue(b, toks, p, acc, parseTopLevel(b, toks, p, section))

ParsedAlone(b, input) ==
    LET lexed == tokenize(b, input)
    IN IF lexed.ok THEN AloneFrom(b, lexed.tokens, 0, Null, EmptyAST(b))
       ELSE [kind |-> "error", ast |-> EmptyAST(b)]

\* the text with every include directive blanked out of it
WithoutDirectives ==
    Join([k \in DOMAIN items |->
             IF IsDirective(items[k]) THEN Blank(items[k]) ELSE items[k]])

SameButIncludes(a, b) == [a EXCEPT !.includes = << >>] = [b EXCEPT !.includes = << >>]

\* the iteration that meets a directive, no resolver being set, appends the
\* record and steps over the two tokens; nothing else changes
C21_DirectiveStep ==
    (/\ status = "parsing"
     /\ ~fileResolver
     /\ lastStep'.op = "parseTopLevel"
     /\ lastStep'.node = "Include")
    => /\ ast' = [ast EXCEPT !.includes = Append(@, lastStep'.made)]
       /\ pos' = pos + 2
       /\ currentSection' = currentSection
       /\ tokens' = tokens
       /\ status' = status
       /\ callStack' = callStack
       /\ resolverCalls' = resolverCalls
       /\ includedPaths' = includedPaths

\* every directive of the text is recorded, in order
DirectivesRecorded ==
    status = "done" => PathsOf(result.ast.includes) = TopLevelDirectives

\* a returned AST is, but for includes, the AST of the text without directives
DoneAsIfAbsent ==
    (status = "done" /\ ~options.fileResolver) =>
        LET alone == ParsedAlone(build, WithoutDirectives)
        IN alone.kind = "done" /\ SameButIncludes(result.ast, alone.ast)

\* a raised Error is raised by the text without directives too
ErrorAsIfAbsent ==
    (status = "error" /\ ~options.fileResolver) =>
        ParsedAlone(build, WithoutDirectives).kind = "error"

\* C21 as claimed: without a resolver the outcome of parse is, but for the
\* includes records, the outcome for the text with the directives absent.
C21_AsIfAbsent ==
    [][C21_DirectiveStep]_vars /\ []DirectivesRecorded
    /\ []DoneAsIfAbsent /\ []ErrorAsIfAbsent

\* C21: without a resolver every include directive is recorded in includes;
\* the iteration that meets it changes nothing but includes and the position
\* (two tokens on); and when parse returns, the five other collections are
\* those of the text with the directives absent.  (A directive ends the
\* construct before it, so a text may raise with it and parse without.)
C21_RecordedOnly ==
    [][C21_DirectiveStep]_vars /\ []DirectivesRecorded /\ []DoneAsIfAbsent

\* a node class, a directive, another node class: both classes returned
C21_Witness ==
    /\ status = "done"
    /\ ~options.fileResolver
    /\ Len(result.ast.includes) = 1
    /\ Len(result.ast.nodeClasses) = 2
    /\ lastStep.op = "return"

(***************************************************************************)
(* One Parser, several calls.                                              *)
(***************************************************************************)
\* C22: a call of parse returns or raises what every earlier call on the
\* same Parser with the same text and options did, the first of them having
\* run on a new Parser, whatever calls came between and however they ended.
C22_CallsIndependent ==
    status \in {"done", "error"} =>
        \A i \in DOMAIN ghost.calls :
            (ghost.calls[i].text = text /\ ghost.calls[i].options = options)
            => ghost.calls[i].result = result

\* the third call repeats the first, which went through the include cycle,
\* after a call that raised inside the included file E
C22_Witness ==
    /\ status = "done"
    /\ Len(ghost.calls) = 2
    /\ ghost.calls[1].text = text
    /\ ghost.calls[1].options = options
    /\ ghost.calls[2].text # text
    /\ ~ghost.calls[2].result.ok
    /\ ghost.calls[2].result.kind = "Grammar"
    /\ Len(resolverCalls) = 2
    /\ Len(result.ast.nodeClasses) = 2

(***************************************************************************)
(* Resuming the including file.                                            *)
(***************************************************************************)
\* the text of the parse unit that is running
UnitText == IF callStack = << >> THEN text ELSE files[currentPath]

\* right after an included file returned, the token stream is that of the
\* text of the unit that goes on, and the path is that unit's: the one given
\* in the options at the top, the one named by the directive the unit
\* below waits behind otherwise
C23_UnitState ==
    (lastStep.op = "includeReturn" /\ status = "parsing") =>
        /\ tokens = tokenize(build, UnitText).tokens
        /\ callStack = << >> => currentPath = options.filePath
        /\ callStack # << >> =>
              LET frame == callStack[Len(callStack)]
              IN /\ frame.savedPos >= 2
                 /\ frame.savedTokens[frame.savedPos - 1].type = "INCLUDE"
                 /\ frame.savedTokens[frame.savedPos].type = "STRING"
                 /\ frame.savedTokens[frame.savedPos].value = currentPath

\* right after an included file returned, the parser stands behind the
\* path string that named it, under the section of the last marker before
RightAfterDirective ==
    (lastStep.op = "includeReturn" /\ status = "parsing") =>
        /\ pos >= 2
        /\ tokens[pos - 1].type = "INCLUDE"
        /\ tokens[pos].type = "STRING"
        /\ tokens[pos].value = lastStep.path
        /\ currentSection = LastMarker(tokens, pos)

\* C23: after an included file has been parsed, the including parse goes on
\* with its own token stream, at the token after the path string, with its
\* own path and under the section it had at the directive, whatever the
\* included file and the files it includes hold.
C23_ResumesWhereItLeft == C23_UnitState /\ RightAfterDirective

\* a nested included file that ended under #connections has returned into a
\* file that was included itself and stood under #nodeclass
C23_Witness ==
    /\ lastStep.op = "includeReturn"
    /\ lastStep.section = "connections"
    /\ currentSection = "nodeclass"
    /\ Len(callStack) = 1
    /\ currentPath # options.filePath
    /\ status = "parsing"

(***************************************************************************)
(* The section at the start of a parse unit.                               *)
(***************************************************************************)
\* a unit has just started: parse was called or an included file entered
UnitStarted ==
    \/ lastStep.op = "parse" /\ status = "parsing"
    \/ lastStep.op = "parseTopLevel" /\ lastStep.included = "entered"

\* C24: every parse unit starts with current section none, whatever section
\* the including file stood under; a construct of an included file is made
\* only under a section whose marker stands before it in that file.
C24_UnitStartsWithoutSection ==
    /\ UnitStarted => (currentSection = Null /\ pos = 0)
    /\ (/\ lastStep.op = "parseTopLevel"
        /\ lastStep.node \in Range(ConstructKind)
        /\ lastStep.depth >= 1)
       => /\ LastMarker(tokens, pos - lastStep.consumed) # Null
          /\ LastMarker(tokens, pos - lastStep.consumed) = lastStep.section

\* the file L, included under #nodeclass, stands at its first token, the
\* identifier of `libA:: p`, with no section: the iteration made nothing
C24_Witness ==
    /\ lastStep.op = "parseTopLevel"
    /\ lastStep.depth = 1
    /\ lastStep.section = Null
    /\ lastStep.token = "IDENTIFIER"
    /\ lastStep.node = "none"
    /\ currentPath = "L"
    /\ callStack[1].savedSection = "nodeclass"
    /\ pos = 0

(***************************************************************************)
(* The order of the merged classes.                                        *)
(***************************************************************************)
Before(p, q) == p.line < q.line \/ (p.line = q.line /\ p.column < q.column)

\* two lists in source order made one list in source order
RECURSIVE InSourceOrder(_, _)
InSourceOrder(a, b) ==
    IF a = << >> THEN b
    ELSE IF b = << >> THEN a
    ELSE IF Before(Head(a).position, Head(b).position)
    THEN << Head(a) >> \o InSourceOrder(Tail(a), b)
    ELSE << Head(b) >> \o InSourceOrder(a, Tail(b))

\* the classes of one kind and the directives a text holds itself, as they
\* stand in the text
OwnEntries(b, input, collection) ==
    LET own == DeclaredIn(b, input)
    IN InSourceOrder(own[collection], own.includes)

\* the claimed order: a class as it comes; at a directive naming a file not
\* visited yet, all that the file yields by this same rule
RECURSIVE ClaimedOrder(_, _, _, _, _)
ClaimedOrder(b, entries, collection, visited, acc) ==
    IF entries = << >> THEN [list |-> acc, visited |-> visited]
    ELSE LET e == Head(entries)
         IN IF e.kind # "Include"
            THEN ClaimedOrder(b, Tail(entries), collection, visited, Append(acc, e))
            ELSE IF e.path \in visited \/ e.path \notin DOMAIN files
            THEN ClaimedOrder(b, Tail(entries), collection, visited, acc)
            ELSE LET inner == ClaimedOrder(b, OwnEntries(b, files[e.path], collection),
                                           collection, visited \cup {e.path}, << >>)
                 IN ClaimedOrder(b, Tail(entries), collection, inner.visited,
                                 acc \o inner.list)

ClaimedClasses(collection) ==
    ClaimedOrder(build, OwnEntries(build, text, collection), collection,
                 InitialIncludedPaths(options.filePath), << >>).list

\* C25: the node classes of the result, and its link classes, stand in this
\* order: those declared before a directive, then what the included file
\* yielded (its own and its includes', by the same rule), then those
\* declared after the directive.
C25_ClassesInIncludeOrder ==
    (status = "done" /\ options.fileResolver) =>
        /\ result.ast.nodeClasses = ClaimedClasses("nodeClasses")
        /\ result.ast.linkClasses = ClaimedClasses("linkClasses")

\* A declares nA, includes B, declares mA; B includes C first
C25_Witness ==
    /\ status = "done"
    /\ options.filePath = Null
    /\ NamesOf(result.ast.nodeClasses) = << "nA", "nC", "mC", "nB", "mB", "mA" >>
    /\ Len(result.ast.linkClasses) = 3
    /\ PathsOf(resolverCalls) = << "B", "C" >>

(***************************************************************************)
(* The order of the rows in a layer.                                       *)
(***************************************************************************)
\* the edges of the view, as a list
ViewEdgeList(a, viewMode) ==
    IF viewMode = "schema"
    THEN [i \in DOMAIN a.linkClasses |->
             [from |-> a.linkClasses[i].from.nodeClass,
              to |-> a.linkClasses[i].to.nodeClass]]
    ELSE [i \in DOMAIN a.connections |->
             [from |-> a.connections[i].from, to |-> a.connections[i].to]]

IndexIn(names, n) == CHOOSE i \in DOMAIN names : names[i] = n

RECURSIVE SumOver(_, _)
SumOver(rows, names) ==
    IF names = << >> THEN 0 ELSE rows[Head(names)] + SumOver(rows, Tail(names))

\* the layout's rows read against the claim, for the entities `names`
RowOrderAsClaimed(names) ==
    LET V == Range(names)
        layer == layout.layers
        rows == layout.rowPositions
        edges == ViewEdgeList(result.ast, layout.viewMode)
        InLayer(k) == {n \in V : layer[n] = k}
        \* the predecessors of n, one per edge, whose row was assigned when
        \* the layer of n was ordered
        assigned(n) == SelectSeq(FromsInto(edges, n),
                                 LAMBDA p : p \in V /\ layer[p] < layer[n])
        MeanLess(x, y) ==
            SumOver(rows, assigned(x)) * Max2(Len(assigned(y)), 1)
              < SumOver(rows, assigned(y)) * Max2(Len(assigned(x)), 1)
    IN /\ V \subseteq DOMAIN rows
       /\ \A n \in V : rows[n] \in 0..(Cardinality(InLayer(layer[n])) - 1)
       /\ \A x, y \in V :
             (x # y /\ layer[x] = layer[y]) => rows[x] # rows[y]
       /\ \A x, y \in InLayer(0) :
             rows[x] < rows[y] => localeCompareBefore(x, y)
       /\ \A x, y \in V :
             (layer[x] = layer[y] /\ layer[x] > 0 /\ rows[x] < rows[y])
             => \/ MeanLess(x, y)
                \/ ~MeanLess(y, x) /\ IndexIn(names, x) < IndexIn(names, y)

\* in an acyclic graph with declared endpoints every predecessor has its row
\* when its successor's layer is ordered
PredecessorsAssigned(names) ==
    LET V == Range(names)
        E == ViewEdges(result.ast, layout.viewMode)
    IN ((\A e \in E : e.from \in V /\ e.to \in V) /\ Acyclic(V, E))
       => \A e \in E : /\ e.from \in DOMAIN layout.rowPositions
                       /\ layout.layers[e.from] < layout.layers[e.to]

\* C26: in every layer the rows are 0,1,2,...; layer 0 is ordered by name;
\* a layer k > 0 is ordered by the mean of the rows of the predecessors
\* assigned so far, equal means keeping the input order; in an acyclic graph
\* with declared endpoints every predecessor has its row in time.
C26_RowOrder ==
    layout.phase = "rendered" =>
        LET names == ViewNames(result.ast, layout.viewMode)
        IN RowOrderAsClaimed(names) /\ PredecessorsAssigned(names)

\* where no NAT entry is declared and the graph is acyclic with declared
\* endpoints, the rows are as claimed
RowOrderOfAcyclic ==
    LET names == ViewNames(result.ast, layout.viewMode)
        V == Range(names)
        E == ViewEdges(result.ast, layout.viewMode)
    IN (/\ layout.phase = "rendered"
        /\ layout.viewMode = "instances" => result.ast.nats = << >>
        /\ \A e \in E : e.from \in V /\ e.to \in V
        /\ Acyclic(V, E))
       => RowOrderAsClaimed(names) /\ PredecessorsAssigned(names)

\* two rows of layer 1 ordered by means, over an acyclic graph
RowOrderOfAcyclicWitness ==
    /\ layout.phase = "rendered"
    /\ layout.viewMode = "schema"
    /\ NamesOf(result.ast.nodeClasses) = << "d", "c", "b", "a" >>
    /\ ViewEdgeList(result.ast, "schema") =
          << [from |-> "b", to |-> "d"], [from |-> "a", to |-> "c"] >>
    /\ layout.rowPositions = ("a" :> 0 @@ "b" :> 1 @@ "c" :> 0 @@ "d" :> 1)

(***************************************************************************)
(* A file whose include chain leads back to it.                            *)
(***************************************************************************)
Count(list, node) == Cardinality({i \in DOMAIN list : list[i] = node})

\* every class the top-level text declares itself stands n times in the result
OwnClassesTimes(n) ==
    LET own == DeclaredIn(build, text)
    IN /\ \A i \in DOMAIN own.nodeClasses :
             Count(result.ast.nodeClasses, own.nodeClasses[i]) = n
       /\ \A i \in DOMAIN own.linkClasses :
             Count(result.ast.linkClasses, own.linkClasses[i]) = n

\* the resolver has been asked for the text of A n times
ResolvedTimes(n) ==
    Cardinality({i \in DOMAIN resolverCalls : resolverCalls[i].path = "A"}) = n

WithEdges(a, viewMode, V, keeps(_, _)) ==
    IF viewMode = "schema"
    THEN [a EXCEPT !.linkClasses =
             SelectSeq(@, LAMBDA l : keeps(l.from.nodeClass, l.to.nodeClass))]
    ELSE [a EXCEPT !.connections = SelectSeq(@, LAMBDA c : keeps(c.from, c.to))]

\* layer and row of every declared entity are those of the layout of b
SameLayersAndRows(V, b) ==
    LET ref == renderModel(NoLayout, b, layout.viewMode)
    IN \A n \in V :
          /\ Get(layout.layers, n, 0) = Get(ref.layers, n, 0)
          /\ Get(layout.rowPositions, n, 0) = Get(ref.rowPositions, n, 0)

\* C28: the layer and the row of every declared entity are those of the
\* layout without the edges that have an undeclared endpoint, source or
\* target.
C28_UndeclaredEdgeNoEffect ==
    layout.phase = "rendered" =>
        LET V == ViewEntities(result.ast, layout.viewMode)
        IN SameLayersAndRows(V, WithEdges(result.ast, layout.viewMode, V,
                                 LAMBDA f, t : f \in V /\ t \in V))

\* the same for the edges whose target is undeclared
UndeclaredTargetNoEffect ==
    layout.phase = "rendered" =>
        LET V == ViewEntities(result.ast, layout.viewMode)
        IN SameLayersAndRows(V, WithEdges(result.ast, layout.viewMode, V,
                                 LAMBDA f, t : t \in V))

\* an edge from a declared entity to an undeclared name has been laid out
UndeclaredTargetWitness ==
    /\ layout.phase = "rendered"
    /\ layout.viewMode = "instances"
    /\ ViewEntities(result.ast, "instances") = {"a", "b"}
    /\ ViewEdgeList(result.ast, "instances") =
          << [from |-> "a", to |-> "c"], [from |-> "a", to |-> "b"] >>
    /\ layout.layers = ("a" :> 0 @@ "b" :> 1)

(***************************************************************************)
(* Boxes in consecutive rows of a layer.                                   *)
(***************************************************************************)
\* boxes i and j stand in the same layer, j in the row after i's
NextRowOf(i, j) ==
    /\ layout.instances[j].position.x = layout.instances[i].position.x
    /\ layout.instances[j].position.y = layout.instances[i].position.y + rowSpacing

MostConnectors(inst) ==
    Max2(Len(OfType(inst.nodeClass.connectors, "sercon")),
         Len(OfType(inst.nodeClass.connectors, "clicon")))

\* C29: with the default sizes, the box in row r ends at or above the top of
\* the box in row r + 1 of the same layer, however many connectors its node
\* class has.
C29_RowsDoNotOverlap ==
    layout.phase = "rendered" =>
        \A i, j \in DOMAIN layout.instances :
            NextRowOf(i, j) =>
                layout.instances[i].position.y + layout.instances[i].position.height
                  =< layout.instances[j].position.y

\* it does while the node class has at most four connectors of either type
RowsClearUpToFour ==
    layout.phase = "rendered" =>
        \A i, j \in DOMAIN layout.instances :
            (NextRowOf(i, j) /\ MostConnectors(layout.instances[i]) =< 4) =>
                layout.instances[i].position.y + layout.instances[i].position.height
                  =< layout.instances[j].position.y

\* instances view, a above b with four server connectors: a box of 166
RowsClearWitness ==
    /\ layout.phase = "rendered"
    /\ layout.viewMode = "instances"
    /\ Len(layout.instances) = 2
    /\ \E i, j \in DOMAIN layout.instances :
          /\ NextRowOf(i, j)
          /\ MostConnectors(layout.instances[i]) = 4
          /\ layout.instances[i].position.height = 166

(***************************************************************************)
(* The render model after several render calls.                            *)
(***************************************************************************)
\* the positioned entities are those of the latest call's view
EntitiesOfLatestView ==
    layout.phase = "rendered" =>
        /\ layout.viewMode = "schema" =>
              NamesOf(layout.instances) = NamesOf(result.ast.nodeClasses)
        /\ layout.viewMode = "instances" =>
              /\ NamesOf(layout.instances) = NamesOf(Flatten(result.ast.instances))
              /\ NamesOf(layout.nats) = NamesOf(result.ast.nats)

\* C30: after any sequence of render calls the model is that of the latest
\* call's view; after a schema layout it holds no positioned NAT record and
\* its positioned entities are the node classes of the AST.
C30_ModelMatchesLatestView ==
    /\ EntitiesOfLatestView
    /\ (layout.phase = "rendered" /\ layout.viewMode = "schema")
          => layout.nats = << >>

\* a schema layout after an instances layout, the positioned entities
\* being the node classes
EntitiesOfLatestViewWitness ==
    /\ layout.phase = "rendered"
    /\ layout.renders = 2
    /\ layout.viewMode = "schema"
    /\ Len(layout.instances) = 3
    /\ layout.nats # << >>
=============================================================================
